---- MODULE Spec2Model ----
(***************************************************************************)
(* Transcript buffer (IndexedDB) and its synchronisation to the remote     *)
(* store (Supabase): lib/indexeddb-storage.ts, lib/sync-manager.ts,        *)
(* lib/supabase.ts and the hook that drives them.                          *)
(*                                                                         *)
(* JavaScript runs one task at a time: an async function runs without      *)
(* interruption up to its next await on a store or network request.  Each  *)
(* action below is one such stretch: the request that ends the await       *)
(* together with the code that runs until the next request is issued.      *)
(***************************************************************************)
EXTENDS Integers, Sequences, FiniteSets, TLC

\* sync-manager.ts:13 keeps 300 entries and :14 sends 50 rows per request;
\* both are scaled down here so that overflow and several batches occur
\* within the bounds of the model.
MAX_INDEXEDDB_COUNT == 2
SYNC_BATCH_SIZE == 2

\* Bounds of the model.
MaxNow == 5          \* largest value Date.now() takes
MaxKey == 4          \* largest timestamp used in the sequential buffer runs
MaxAdds == 2         \* addTranscript calls in one run of the data manager
MaxGens == 2         \* generateAndSaveWordCloud calls in one run of the data manager
MaxTexts == 3        \* texts in one list handed to the keyword extractor
MaxFreq == 5         \* largest frequency a word is weighed with

Texts == {"a", "b"}     \* what a transcript may say
Spoken == {"a"}         \* what the recogniser hears while the scheduler runs
\* The syncToSupabase invocations that may be in flight at once: the hook has
\* three callers (the timer, startAutoSync's first sync, manualSync), and any
\* two of them overlapping show every interference between invocations.
Slots == {"s1", "s2"}

VARIABLES
  buffer,          \* the IndexedDB store 'transcripts': timestamp -> Transcript
  remote,          \* the Supabase table 'transcripts': a set of rows
  now,             \* the last value Date.now() returned
  isSyncing,       \* sync-manager.ts:18
  lastSyncTime,    \* sync-manager.ts:19
  syncIntervalId,  \* sync-manager.ts:20 (TRUE: an interval timer is set)
  timers,          \* the interval timers set by setInterval and not cleared
  sync,            \* the syncToSupabase invocations in flight, by slot
  export,          \* the exportAllToSupabase invocation
  lastOp,          \* the last call of the sequential buffer runs and its result
  appended,        \* history: the timestamps of the transcripts the hook has saved
  sessions,        \* the IndexedDB store 'sessions' of the data manager: id -> session
  currentSessionId,\* part_006:143 (0: null)
  calls,           \* the data manager's calls in flight, by slot
  sessQ,           \* the calls waiting for a request on the store 'sessions', in order
  stats            \* history: the addTranscript calls started and completed, the
                   \* snapshots made, and whether clearAll has completed since
                   \* the last addTranscript call

mgrVars == <<sessions, currentSessionId, calls, sessQ, stats>>

vars == <<buffer, remote, now, isSyncing, lastSyncTime, syncIntervalId, timers, sync,
          export, lastOp, appended, mgrVars>>

Min(a, b) == IF a <= b THEN a ELSE b

(***************************************************************************)
(* The local store.                                                        *)
(***************************************************************************)
EmptyStore == [k \in {} |-> 0]

\* a put that keeps the stored entry when the key is taken (IDBObjectStore.add
\* with the error ignored)
PutKeepsFirst(store, t) ==
  [k \in (DOMAIN store) \cup {t.timestamp} |->
     IF k \in DOMAIN store THEN store[k] ELSE t]

\* db.put(STORE_NAME, transcript): keyPath 'timestamp', overwrite on collision
Put(store, t) ==
  [k \in (DOMAIN store) \cup {t.timestamp} |->
     IF k = t.timestamp THEN t ELSE store[k]]

\* db.count(STORE_NAME)
getIndexedDBCount(store) == Cardinality(DOMAIN store)

RECURSIVE CursorPrev(_, _)
\* index.openCursor(null, 'prev') followed by cursor.continue() to the end:
\* the values of the keys in descending order
CursorPrev(store, keys) ==
  IF keys = {} THEN <<>>
  ELSE LET m == CHOOSE k \in keys : \A j \in keys : j <= k
       IN  <<store[m]>> \o CursorPrev(store, keys \ {m})

\* a slice that takes the element at index end as well
SliceThroughEnd(s, start, end) == SubSeq(s, start + 1, Min(end + 1, Len(s)))

\* Array.prototype.slice(start, end) for 0 <= start
Slice(s, start, end) == SubSeq(s, start + 1, Min(end, Len(s)))
SliceFrom(s, start) == SubSeq(s, start + 1, Len(s))

\* the first transaction of deleteOldFromIndexedDB: the scan
ScanAll(store) == CursorPrev(store, DOMAIN store)

\* a slice that keeps one entry more than keepCount
ToDeleteOffByOne(allTranscripts, keepCount) == SliceFrom(allTranscripts, keepCount + 1)

\* toDelete = allTranscripts.slice(keepCount)
ToDelete(allTranscripts, keepCount) == SliceFrom(allTranscripts, keepCount)

\* the second transaction: deleteTx.store.delete(t.timestamp) for each
DeleteAll(store, toDelete) ==
  LET gone == {toDelete[j].timestamp : j \in 1..Len(toDelete)}
  IN  [k \in (DOMAIN store) \ gone |-> store[k]]

\* deleteOldFromIndexedDB(keepCount) when nothing else touches the store
\* between its two transactions: the store afterwards and the list returned
deleteOldFromIndexedDB(store, keepCount) ==
  LET allTranscripts == ScanAll(store)
      toDelete == ToDelete(allTranscripts, keepCount)
  IN  IF Len(toDelete) = 0
      THEN [store |-> store, ret |-> <<>>]
      ELSE [store |-> DeleteAll(store, toDelete), ret |-> toDelete]

\* a read that returns one entry more than asked for
getLatestOneMore(store, limit) == Slice(CursorPrev(store, DOMAIN store), 0, limit + 1)

\* getLatestFromIndexedDB(limit): the cursor 'prev' is followed while
\* transcripts.length < limit
getLatestFromIndexedDB(store, limit) == Slice(CursorPrev(store, DOMAIN store), 0, limit)

\* getAllFromIndexedDB: getAllFromIndex then sort((a, b) => b.timestamp - a.timestamp)
getAllFromIndexedDB(store) == CursorPrev(store, DOMAIN store)

(***************************************************************************)
(* The remote store.                                                       *)
(***************************************************************************)
\* t => ({text: t.text, timestamp: t.timestamp, is_final: t.isFinal})
ToRow(t) == [text |-> t.text, timestamp |-> t.timestamp, is_final |-> t.isFinal]
ToRows(ts) == [j \in 1..Len(ts) |-> ToRow(ts[j])]

RowSet(batch) == {batch[j] : j \in 1..Len(batch)}
Stamps(rows) == {r.timestamp : r \in rows}
SeqStamps(s) == {s[j].timestamp : j \in 1..Len(s)}

\* CONSTRAINT transcripts_timestamp_idx UNIQUE (timestamp): an insert of a
\* batch holding a timestamp the table already has is rejected as a whole
InsertAllowed(table, batch) == Stamps(RowSet(batch)) \cap Stamps(table) = {}

(***************************************************************************)
(* Date.now(): the clock never runs backwards between two reads of one     *)
(* run; a read may find it unchanged.                                      *)
(***************************************************************************)
DateNow == {now, now + 1} \cap (1..MaxNow)

(***************************************************************************)
(* saveToIndexedDB(latestTranscript), called by the hook for each final    *)
(* recognition result {text, timestamp: Date.now(), isFinal: true}.        *)
(***************************************************************************)
saveToIndexedDB(text, t) ==
  /\ buffer' = Put(buffer, [text |-> text, timestamp |-> t, isFinal |-> TRUE])
  /\ now' = t
  /\ appended' = appended \cup {t}
  /\ UNCHANGED <<remote, isSyncing, lastSyncTime, syncIntervalId, timers, sync, export, lastOp, mgrVars>>

(***************************************************************************)
(* syncToSupabase(force).  A slot holds the locals of one invocation:      *)
(*   pc     where the invocation waits                                     *)
(*   how    the exit it took, as the logger records it                     *)
(*   log    the outcome of each insertTranscripts call, as logged          *)
(*   allTranscripts  what the scan of deleteOldFromIndexedDB read          *)
(***************************************************************************)
IdleSync ==
  [pc |-> "idle", force |-> FALSE, allTranscripts |-> <<>>, toSync |-> <<>>,
   i |-> 0, totalSynced |-> 0, log |-> <<>>, how |-> "none", ret |-> 0]

Executing(p) == sync[p].pc \in {"count", "scan", "delete", "push"}
InFlight == {p \in Slots : Executing(p)}
FreeSlots == {p \in Slots : sync[p].pc = "idle"}
\* an invocation takes the first free slot
FreeSlot == IF "s1" \in FreeSlots THEN "s1" ELSE "s2"

\* if (isSyncing && !force) return 0;
Skips(syncing, force) == syncing /\ ~force

\* if (count <= MAX_INDEXEDDB_COUNT && !force) return 0;
UnderCap(count, force) == count <= MAX_INDEXEDDB_COUNT /\ ~force

\* a finally block that leaves the flag as it is
FinallyMissing == isSyncing

\* finally { isSyncing = false; }
Finally == FALSE

\* The exits of syncToSupabase: the slot afterwards.
Returned(s, how, ret) ==
  [IdleSync EXCEPT !.pc = "done", !.force = s.force, !.log = s.log, !.how = how, !.ret = ret]
Threw(s) == [IdleSync EXCEPT !.pc = "done", !.force = s.force, !.how = "threw"]

\* lines 27-41: the guard and isSyncing = true, up to await getIndexedDBCount()
Enter(p, force) ==
  IF Skips(isSyncing, force)
  THEN /\ sync' = [sync EXCEPT ![p] = Returned([IdleSync EXCEPT !.force = force], "skipped", 0)]
       /\ UNCHANGED isSyncing
  ELSE /\ sync' = [sync EXCEPT ![p] = [IdleSync EXCEPT !.force = force, !.pc = "count"]]
       /\ isSyncing' = TRUE

\* lines 43-67: const count = await getIndexedDBCount(); ... return 0
SyncCount(p, fails) ==
  /\ sync[p].pc = "count"
  /\ IF fails
     THEN /\ sync' = [sync EXCEPT ![p] = Threw(@)]
          /\ isSyncing' = Finally
     ELSE IF UnderCap(getIndexedDBCount(buffer), sync[p].force)
     THEN /\ sync' = [sync EXCEPT ![p] = Returned(@, "undercap", 0)]
          /\ isSyncing' = Finally
     ELSE /\ sync' = [sync EXCEPT ![p].pc = "scan"]
          /\ UNCHANGED isSyncing
  /\ UNCHANGED <<buffer, remote, now, lastSyncTime, syncIntervalId, timers, export, lastOp, appended, mgrVars>>

\* deleteOldFromIndexedDB lines 260-287 (the scan, in transaction tx), and
\* sync-manager.ts lines 72-80 when it returns []
SyncScan(p, fails) ==
  /\ sync[p].pc = "scan"
  /\ LET allTranscripts == ScanAll(buffer)
         toDelete == ToDelete(allTranscripts, MAX_INDEXEDDB_COUNT)
     IN  IF fails
         THEN /\ sync' = [sync EXCEPT ![p] = Threw(@)]
              /\ isSyncing' = Finally
         ELSE IF Len(toDelete) = 0
         THEN /\ sync' = [sync EXCEPT ![p] =
                   Returned([@ EXCEPT !.allTranscripts = allTranscripts], "nothing", 0)]
              /\ isSyncing' = Finally
         ELSE /\ sync' = [sync EXCEPT ![p].pc = "delete",
                                      ![p].allTranscripts = allTranscripts,
                                      ![p].toSync = toDelete]
              /\ UNCHANGED isSyncing
  /\ UNCHANGED <<buffer, remote, now, lastSyncTime, syncIntervalId, timers, export, lastOp, appended, mgrVars>>

\* deleteOldFromIndexedDB lines 289-307 (the deletes, in transaction
\* deleteTx), and sync-manager.ts lines 82-92 up to the first insert
SyncDelete(p, fails) ==
  /\ sync[p].pc = "delete"
  /\ IF fails
     THEN /\ sync' = [sync EXCEPT ![p] = Threw(@)]
          /\ isSyncing' = Finally
          /\ UNCHANGED buffer
     ELSE /\ buffer' = DeleteAll(buffer, sync[p].toSync)
          /\ sync' = [sync EXCEPT ![p].pc = "push", ![p].i = 0, ![p].totalSynced = 0]
          /\ UNCHANGED isSyncing
  /\ UNCHANGED <<remote, now, lastSyncTime, syncIntervalId, timers, export, lastOp, appended, mgrVars>>

\* a loop that steps over every second batch
NextBatchSkipsOne(i, ok) == i + 2 * SYNC_BATCH_SIZE

\* a loop that tries a failed batch again
NextBatchRetry(i, ok) == IF ok THEN i + SYNC_BATCH_SIZE ELSE i

\* for (let i = 0; i < transcriptRows.length; i += SYNC_BATCH_SIZE)
NextBatch(i, ok) == i + SYNC_BATCH_SIZE

\* lines 91-124: one insertTranscripts(batch) and its try/catch; after the
\* last batch, lines 126-139 and the finally
SyncPush(p, ok, t) ==
  /\ sync[p].pc = "push"
  /\ LET s == sync[p]
         transcriptRows == ToRows(s.toSync)
         batch == Slice(transcriptRows, s.i, s.i + SYNC_BATCH_SIZE)
         totalSynced == IF ok THEN s.totalSynced + Len(batch) ELSE s.totalSynced
         i == NextBatch(s.i, ok)
         after == [s EXCEPT !.i = i, !.totalSynced = totalSynced,
                            !.log = Append(@, IF ok THEN "ok" ELSE "fail")]
     IN  /\ ok => InsertAllowed(remote, batch)
         /\ remote' = IF ok THEN remote \cup RowSet(batch) ELSE remote
         /\ IF i < Len(transcriptRows)
            THEN /\ sync' = [sync EXCEPT ![p] = after]
                 /\ t = now
                 /\ UNCHANGED <<isSyncing, lastSyncTime, now>>
            ELSE /\ sync' = [sync EXCEPT ![p] = Returned(after, "synced", totalSynced)]
                 /\ lastSyncTime' = t
                 /\ now' = t
                 /\ isSyncing' = Finally
  /\ UNCHANGED <<buffer, syncIntervalId, timers, export, lastOp, appended, mgrVars>>

\* the caller has the result; the slot is free again
SyncSettle(p) ==
  /\ sync[p].pc = "done"
  /\ sync' = [sync EXCEPT ![p] = IdleSync]
  /\ UNCHANGED <<buffer, remote, now, isSyncing, lastSyncTime, syncIntervalId, timers, export, lastOp, appended, mgrVars>>

(***************************************************************************)
(* The callers of syncToSupabase.                                          *)
(***************************************************************************)
\* a stopAutoSync that abandons the invocations in flight as well
stopAutoSyncAborts ==
  /\ syncIntervalId
  /\ timers' = timers - 1
  /\ syncIntervalId' = FALSE
  /\ sync' = [p \in Slots |-> IdleSync]
  /\ isSyncing' = FALSE
  /\ UNCHANGED <<buffer, remote, now, lastSyncTime, export, lastOp, appended, mgrVars>>

\* stopAutoSync, lines 203-215: clearInterval(syncIntervalId)
stopAutoSync ==
  /\ syncIntervalId
  /\ timers' = timers - 1
  /\ syncIntervalId' = FALSE
  /\ UNCHANGED <<buffer, remote, now, isSyncing, lastSyncTime, sync, export, lastOp, appended, mgrVars>>

\* a startAutoSync that sets a timer and leaves the one that is set
startAutoSyncKeepsTimer ==
  /\ FreeSlots # {}
  /\ timers' = timers + 1
  /\ syncIntervalId' = TRUE
  /\ Enter(FreeSlot, FALSE)
  /\ UNCHANGED <<buffer, remote, now, lastSyncTime, export, lastOp, appended, mgrVars>>

\* startAutoSync, lines 158-198: stopAutoSync() when a timer is set,
\* setInterval, then syncToSupabase()
startAutoSync ==
  /\ FreeSlots # {}
  /\ timers' = (IF syncIntervalId THEN timers - 1 ELSE timers) + 1
  /\ syncIntervalId' = TRUE
  /\ Enter(FreeSlot, FALSE)
  /\ UNCHANGED <<buffer, remote, now, lastSyncTime, export, lastOp, appended, mgrVars>>

\* the setInterval callback, lines 174-186
TimerFire ==
  /\ timers > 0
  /\ FreeSlots # {}
  /\ Enter(FreeSlot, FALSE)
  /\ UNCHANGED <<buffer, remote, now, lastSyncTime, syncIntervalId, timers, export, lastOp, appended, mgrVars>>

\* manualSync of the hook: syncToSupabase(true)
manualSync ==
  /\ FreeSlots # {}
  /\ Enter(FreeSlot, TRUE)
  /\ UNCHANGED <<buffer, remote, now, lastSyncTime, syncIntervalId, timers, export, lastOp, appended, mgrVars>>

(***************************************************************************)
(* exportAllToSupabase, lines 237-304.                                     *)
(***************************************************************************)
IdleExport == [pc |-> "idle", rows |-> <<>>, i |-> 0, totalExported |-> 0, how |-> "none"]

Exporting == export.pc \in {"read", "push"}

\* lines 237-246, up to await getAllFromIndexedDB()
ExportCall ==
  /\ export.pc = "idle"
  /\ export' = [IdleExport EXCEPT !.pc = "read"]
  /\ UNCHANGED <<buffer, remote, now, isSyncing, lastSyncTime, syncIntervalId, timers, sync, lastOp, appended, mgrVars>>

\* lines 246-266
ExportRead(fails) ==
  /\ export.pc = "read"
  /\ LET allTranscripts == getAllFromIndexedDB(buffer)
     IN  export' =
           IF fails THEN [export EXCEPT !.pc = "done", !.how = "threw"]
           ELSE IF Len(allTranscripts) = 0
           THEN [export EXCEPT !.pc = "done", !.how = "empty"]
           ELSE [export EXCEPT !.pc = "push", !.rows = ToRows(allTranscripts)]
  /\ UNCHANGED <<buffer, remote, now, isSyncing, lastSyncTime, syncIntervalId, timers, sync, lastOp, appended, mgrVars>>

\* an export that goes on to the next batch after a failed one
ExportPushGoesOn(ok) ==
  /\ export.pc = "push"
  /\ LET batch == Slice(export.rows, export.i, export.i + SYNC_BATCH_SIZE)
         i == export.i + SYNC_BATCH_SIZE
     IN  /\ ok => InsertAllowed(remote, batch)
         /\ remote' = IF ok THEN remote \cup RowSet(batch) ELSE remote
         /\ export' =
              [export EXCEPT !.i = i,
                             !.totalExported = IF ok THEN @ + Len(batch) ELSE @,
                             !.pc = IF i < Len(export.rows) THEN "push" ELSE "done",
                             !.how = IF i < Len(export.rows) THEN "none" ELSE "exported"]
  /\ UNCHANGED <<buffer, now, isSyncing, lastSyncTime, syncIntervalId, timers, sync, lastOp, appended, mgrVars>>

\* lines 266-282: one insertTranscripts(batch); an error leaves the loop
\* through the outer catch, which rethrows
ExportPush(ok) ==
  /\ export.pc = "push"
  /\ LET batch == Slice(export.rows, export.i, export.i + SYNC_BATCH_SIZE)
         i == export.i + SYNC_BATCH_SIZE
     IN  /\ ok => InsertAllowed(remote, batch)
         /\ remote' = IF ok THEN remote \cup RowSet(batch) ELSE remote
         /\ export' =
              IF ~ok THEN [export EXCEPT !.pc = "done", !.how = "threw"]
              ELSE [export EXCEPT !.i = i,
                                  !.totalExported = @ + Len(batch),
                                  !.pc = IF i < Len(export.rows) THEN "push" ELSE "done",
                                  !.how = IF i < Len(export.rows) THEN "none" ELSE "exported"]
  /\ UNCHANGED <<buffer, now, isSyncing, lastSyncTime, syncIntervalId, timers, sync, lastOp, appended, mgrVars>>

ExportSettle ==
  /\ export.pc = "done"
  /\ export' = IdleExport
  /\ UNCHANGED <<buffer, remote, now, isSyncing, lastSyncTime, syncIntervalId, timers, sync, lastOp, appended, mgrVars>>

(***************************************************************************)
(* The keyword extractor (lib/keyword-extractor.ts).  A text is a list of  *)
(* characters.  None of the characters of the model is Japanese, so        *)
(* containsJapanese is false of every text and extractKeywords splits on   *)
(* white space and punctuation; TinySegmenter and BudouX, used for         *)
(* Japanese text and for sentences above SENTENCE_SPLIT_THRESHOLD, are     *)
(* out of reach of the texts of the model.                                 *)
(***************************************************************************)
WhiteSpace == {" ", "\n"}
\* the ASCII punctuation extractKeywords splits on
Punctuation == {",", ".", "!", "?"}
Digit == {"1"}
\* the characters text.split cuts sentences at (line 146): the newline and
\* the ideographic full stop U+3002, which is no Japanese letter for
\* containsJapanese and no separator for extractKeywords
SentenceEnd == {"\n", "U+3002"}
\* the letters of /^[\u30A1-\u30F6\u30FC]+$/ (line 124); the texts that are
\* ranked hold none, calculateWordWeight is also given words that do
Katakana == {"U+30A2"}

\* the stop words that can be spelt with the letters of the model
STOP_WORDS == {}
ENGLISH_STOP_WORDS == {<<"a">>, <<"d", "o">>}

\* String.prototype.toLowerCase
toLowerCase(text) ==
  [i \in 1..Len(text) |-> IF text[i] = "A" THEN "a" ELSE text[i]]

\* /^[A-Z]/.test(word)
UpperInitial(word) == word # <<>> /\ word[1] = "A"

\* String.prototype.trim
RECURSIVE trim(_)
trim(text) ==
  IF text = <<>> THEN <<>>
  ELSE IF text[1] \in WhiteSpace THEN trim(Tail(text))
  ELSE IF text[Len(text)] \in WhiteSpace THEN trim(SubSeq(text, 1, Len(text) - 1))
  ELSE text

\* text.split(/[seps]+/).filter(s => s.length > 0)
RECURSIVE SplitOn(_, _)
SplitOn(text, seps) ==
  IF text = <<>> THEN <<>>
  ELSE IF text[1] \in seps THEN SplitOn(Tail(text), seps)
  ELSE LET stops == {i \in 1..Len(text) : text[i] \in seps}
           n == IF stops = {} THEN Len(text) + 1
                ELSE CHOOSE i \in stops : \A j \in stops : i <= j
       IN  <<SubSeq(text, 1, n - 1)>> \o SplitOn(SubSeq(text, n, Len(text)), seps)

\* transcripts.join(' ')
RECURSIVE join(_)
join(transcripts) ==
  IF transcripts = <<>> THEN <<>>
  ELSE IF Len(transcripts) = 1 THEN transcripts[1]
  ELSE transcripts[1] \o <<" ">> \o join(Tail(transcripts))

\* a token that counts although it is a stop word
SkippedButStopWords(trimmedWord) ==
  \/ trimmedWord = <<>>
  \/ \A i \in 1..Len(trimmedWord) : trimmedWord[i] \in WhiteSpace \cup Punctuation \cup SentenceEnd
  \/ Len(trimmedWord) < 2
  \/ \A i \in 1..Len(trimmedWord) : trimmedWord[i] \in Digit

\* extractKeywords lines 97-110: the tokens that are not counted
Skipped(trimmedWord) ==
  \/ trimmedWord = <<>>
  \/ \A i \in 1..Len(trimmedWord) : trimmedWord[i] \in WhiteSpace \cup Punctuation \cup SentenceEnd
  \/ trimmedWord \in STOP_WORDS \cup ENGLISH_STOP_WORDS
  \/ Len(trimmedWord) < 2
  \/ \A i \in 1..Len(trimmedWord) : trimmedWord[i] \in Digit

\* the tokens counted, in the order of the text
Counted(text) ==
  LET words == SplitOn(toLowerCase(text), WhiteSpace \cup Punctuation)
      trimmed == [i \in 1..Len(words) |-> toLowerCase(trim(words[i]))]
  IN  SelectSeq(trimmed, LAMBDA w : ~Skipped(w))

\* the entries of a Map filled in the order of words: each key once, in the
\* order of its first occurrence, with the number of its occurrences
RECURSIVE Entries(_)
Entries(words) ==
  IF words = <<>> THEN <<>>
  ELSE LET last == words[Len(words)]
           front == SubSeq(words, 1, Len(words) - 1)
           before == Entries(front)
       IN  IF \E i \in 1..Len(before) : before[i].word = last
           THEN [i \in 1..Len(before) |->
                   IF before[i].word = last
                   THEN [before[i] EXCEPT !.freq = @ + 1] ELSE before[i]]
           ELSE Append(before, [word |-> last, freq |-> 1])

\* extractKeywords: the frequency map of the text
extractKeywords(text) == Entries(Counted(text))

\* wordFrequency.get(word) || 0
FreqOf(wordFrequency, word) ==
  IF \E i \in 1..Len(wordFrequency) : wordFrequency[i].word = word
  THEN wordFrequency[CHOOSE i \in 1..Len(wordFrequency) : wordFrequency[i].word = word].freq
  ELSE 0

\* weights are kept in thousandths, which holds frequency * 1.2^3 exactly
WeightUnit == 1000

\* a bonus that adds 0.2 instead of multiplying
BonusAdds(cond, weight) == IF cond THEN weight + WeightUnit \div 5 ELSE weight

\* weight *= 1.2 when the condition holds
Bonus(cond, weight) == IF cond THEN (weight * 12) \div 10 ELSE weight

\* calculateWordWeight
calculateWordWeight(word, frequency) ==
  IF frequency >= 3
  THEN Bonus(Len(word) >= 3,
             Bonus(UpperInitial(word),
                   Bonus(word # <<>> /\ \A i \in 1..Len(word) : word[i] \in Katakana,
                         frequency * WeightUnit)))
  ELSE frequency * WeightUnit

\* Array.prototype.sort((a, b) => b.weight - a.weight): stable, descending
RECURSIVE SortByWeight(_)
SortByWeight(s) ==
  IF s = <<>> THEN <<>>
  ELSE LET last == s[Len(s)]
           rest == SortByWeight(SubSeq(s, 1, Len(s) - 1))
           k == Cardinality({i \in 1..Len(rest) : rest[i].weight >= last.weight})
       IN  SubSeq(rest, 1, k) \o <<last>> \o SubSeq(rest, k + 1, Len(rest))

\* generateWordCloudData lines 364-369: the weighted words
weightedWords(transcripts) ==
  LET wordFrequency == extractKeywords(join(transcripts))
  IN  [i \in 1..Len(wordFrequency) |->
         [word |-> wordFrequency[i].word, frequency |-> wordFrequency[i].freq,
          weight |-> calculateWordWeight(wordFrequency[i].word, wordFrequency[i].freq)]]

\* a ranking that is cut to maxWords before it is sorted
sortedWordsCutFirst(transcripts, maxWords) ==
  SortByWeight(Slice(weightedWords(transcripts), 0, maxWords))

\* generateWordCloudData lines 371-373
sortedWords(transcripts, maxWords) ==
  Slice(SortByWeight(weightedWords(transcripts)), 0, maxWords)

RECURSIVE GCD(_, _)
GCD(a, b) == IF b = 0 THEN a ELSE GCD(b, a % b)

\* the fraction n / d in lowest terms, for d > 0 and n >= 0
Frac(n, d) == [n |-> n \div GCD(n, d), d |-> d \div GCD(n, d)]

\* a word cloud whose sizes span 0.5 to 2.5
generateWordCloudDataWide(transcripts, maxWords) ==
  CHOOSE words \in
    {IF Len(sorted) = 0 THEN <<>>
     ELSE LET maxWeight == sorted[1].weight
              minWeight == sorted[Len(sorted)].weight
              range == IF maxWeight - minWeight = 0 THEN WeightUnit
                       ELSE maxWeight - minWeight
          IN  [i \in 1..Len(sorted) |->
                 [text |-> sorted[i].word, frequency |-> sorted[i].frequency,
                  size |-> Frac(range + 4 * (sorted[i].weight - minWeight), 2 * range)]]
       : sorted \in {sortedWords(transcripts, maxWords)}}
    : TRUE

\* generateWordCloudData: a Word without its random position and its
\* timestamp; size = 0.5 + normalizedWeight * 1.5 as a fraction
\* (sortedWords is computed once, as in the code)
generateWordCloudData(transcripts, maxWords) ==
  CHOOSE words \in
    {IF Len(sorted) = 0 THEN <<>>
     ELSE LET maxWeight == sorted[1].weight
              minWeight == sorted[Len(sorted)].weight
              range == IF maxWeight - minWeight = 0 THEN WeightUnit
                       ELSE maxWeight - minWeight
          IN  [i \in 1..Len(sorted) |->
                 [text |-> sorted[i].word, frequency |-> sorted[i].frequency,
                  size |-> Frac(range + 3 * (sorted[i].weight - minWeight), 2 * range)]]
       : sorted \in {sortedWords(transcripts, maxWords)}}
    : TRUE

\* the thresholds and factors of the sentence score
SENTENCE_MIN_LENGTH == 5
SENTENCE_MAX_LENGTH == 60
SENTENCE_SPLIT_THRESHOLD == 40
SENTENCE_MAX_COMBINE_LENGTH == 50
MIN_KEYWORD_FREQ == 2
GLOBAL_FREQ_WEIGHT == 10
SIMILARITY_WEIGHT == 20

\* arithmetic on fractions in lowest terms
FAdd(a, b) == Frac(a.n * b.d + b.n * a.d, a.d * b.d)
FMul(a, b) == Frac(a.n * b.n, a.d * b.d)
FGe(a, b) == a.n * b.d >= b.n * a.d
FGt(a, b) == a.n * b.d > b.n * a.d

RECURSIVE FSum(_)
FSum(s) == IF s = <<>> THEN Frac(0, 1) ELSE FAdd(Head(s), FSum(Tail(s)))

\* splitIntoSentences for sentences of at most SENTENCE_SPLIT_THRESHOLD
\* characters: the trimmed pieces that are not blank
splitIntoSentences(text) ==
  LET pieces == SplitOn(text, SentenceEnd)
      trimmed == [i \in 1..Len(pieces) |-> trim(pieces[i])]
  IN  SelectSeq(trimmed, LAMBDA s : Len(s) > 0)

\* new Set(extractKeywords(sentence).keys())
KeywordSet(sentence) ==
  LET sentenceWords == extractKeywords(sentence)
  IN  {sentenceWords[i].word : i \in 1..Len(sentenceWords)}

\* calculateSimilarity: the Jaccard coefficient
calculateSimilarity(words1, words2) ==
  IF words1 \cup words2 = {} THEN Frac(0, 1)
  ELSE Frac(Cardinality(words1 \cap words2), Cardinality(words1 \cup words2))

\* similarity >= SIMILARITY_THRESHOLD (0.3)
Similar(similarity) == FGe(similarity, Frac(3, 10))

\* a score that also drops the sentences of exactly the minimum length
calculateSentenceScoreAboveMin(sentence, wordFrequency, allSentences, sentenceIndex) ==
  LET length == Len(sentence)
      sentenceWordSet == KeywordSet(sentence)
      importantWords == {w \in sentenceWordSet :
                           FreqOf(wordFrequency, w) >= MIN_KEYWORD_FREQ}
      keywordCount == Cardinality(importantWords)
      sims == [idx \in 1..Len(allSentences) |->
                 LET similarity == calculateSimilarity(sentenceWordSet, allSentences[idx].words)
                 IN  IF idx # sentenceIndex /\ Similar(similarity)
                     THEN FMul(similarity, Frac(SIMILARITY_WEIGHT, 1)) ELSE Frac(0, 1)]
      similarSentenceCount ==
        Cardinality({idx \in 1..Len(allSentences) :
                       /\ idx # sentenceIndex
                       /\ Similar(calculateSimilarity(sentenceWordSet, allSentences[idx].words))})
      global == [i \in 1..Len(wordFrequency) |->
                   IF wordFrequency[i].word \in importantWords
                   THEN Frac(wordFrequency[i].freq * GLOBAL_FREQ_WEIGHT, 1) ELSE Frac(0, 1)]
      cooccurrence == IF keywordCount >= 2 THEN Frac(10 + 3 * keywordCount, 10) ELSE Frac(1, 1)
      repetition == IF similarSentenceCount >= 2 THEN Frac(2 + similarSentenceCount, 2)
                    ELSE IF similarSentenceCount = 1 THEN Frac(13, 10) ELSE Frac(1, 1)
      density == Frac(length + 3 * keywordCount, length)
      penalty == IF length > SENTENCE_MAX_COMBINE_LENGTH THEN Frac(8, 10) ELSE Frac(1, 1)
  IN  IF length <= SENTENCE_MIN_LENGTH \/ length > SENTENCE_MAX_LENGTH THEN Frac(0, 1)
      ELSE IF keywordCount = 0 THEN Frac(0, 1)
      ELSE FMul(FMul(FMul(FMul(FAdd(FSum(global), FSum(sims)), cooccurrence),
                          repetition), density), penalty)

\* calculateSentenceScore
calculateSentenceScore(sentence, wordFrequency, allSentences, sentenceIndex) ==
  LET length == Len(sentence)
      sentenceWordSet == KeywordSet(sentence)
      \* the words of the sentence of global frequency MIN_KEYWORD_FREQ or more
      importantWords == {w \in sentenceWordSet :
                           FreqOf(wordFrequency, w) >= MIN_KEYWORD_FREQ}
      keywordCount == Cardinality(importantWords)
      \* similarity * SIMILARITY_WEIGHT for each other sentence that is similar
      sims == [idx \in 1..Len(allSentences) |->
                 LET similarity == calculateSimilarity(sentenceWordSet, allSentences[idx].words)
                 IN  IF idx # sentenceIndex /\ Similar(similarity)
                     THEN FMul(similarity, Frac(SIMILARITY_WEIGHT, 1)) ELSE Frac(0, 1)]
      similarSentenceCount ==
        Cardinality({idx \in 1..Len(allSentences) :
                       /\ idx # sentenceIndex
                       /\ Similar(calculateSimilarity(sentenceWordSet, allSentences[idx].words))})
      \* globalFreq * GLOBAL_FREQ_WEIGHT for each important word
      global == [i \in 1..Len(wordFrequency) |->
                   IF wordFrequency[i].word \in importantWords
                   THEN Frac(wordFrequency[i].freq * GLOBAL_FREQ_WEIGHT, 1) ELSE Frac(0, 1)]
      \* 1 + importantWords.length * COOCCURRENCE_BONUS (0.3)
      cooccurrence == IF keywordCount >= 2 THEN Frac(10 + 3 * keywordCount, 10) ELSE Frac(1, 1)
      \* 1 + similarSentenceCount * REPETITION_BONUS (0.5), or SINGLE_SIMILAR_BONUS (1.3)
      repetition == IF similarSentenceCount >= 2 THEN Frac(2 + similarSentenceCount, 2)
                    ELSE IF similarSentenceCount = 1 THEN Frac(13, 10) ELSE Frac(1, 1)
      \* 1 + keywordCount / (length / 10) * KEYWORD_DENSITY_BONUS (0.3)
      density == Frac(length + 3 * keywordCount, length)
      \* LONG_SENTENCE_PENALTY (0.8)
      penalty == IF length > SENTENCE_MAX_COMBINE_LENGTH THEN Frac(8, 10) ELSE Frac(1, 1)
  IN  IF length < SENTENCE_MIN_LENGTH \/ length > SENTENCE_MAX_LENGTH THEN Frac(0, 1)
      ELSE IF keywordCount = 0 THEN Frac(0, 1)
      ELSE FMul(FMul(FMul(FMul(FAdd(FSum(global), FSum(sims)), cooccurrence),
                          repetition), density), penalty)

\* extractImportantSentences lines 305-308: each sentence with its keywords
allSentencesOf(transcripts) ==
  LET sentences == splitIntoSentences(join(transcripts))
  IN  [i \in 1..Len(sentences) |->
         [text |-> sentences[i], words |-> KeywordSet(sentences[i])]]

\* extractImportantSentences lines 311-315: the score of every sentence
scoresOf(transcripts) ==
  CHOOSE scored \in
    {[i \in 1..Len(allSentences) |->
        [text |-> allSentences[i].text,
         score |-> calculateSentenceScore(allSentences[i].text, wordFrequency,
                                          allSentences, i)]]
       : wordFrequency \in {extractKeywords(join(transcripts))},
         allSentences \in {allSentencesOf(transcripts)}}
    : TRUE

\* Array.prototype.sort((a, b) => b.score - a.score): stable, descending
RECURSIVE SortByScore(_)
SortByScore(s) ==
  IF s = <<>> THEN <<>>
  ELSE LET last == s[Len(s)]
           rest == SortByScore(SubSeq(s, 1, Len(s) - 1))
           k == Cardinality({i \in 1..Len(rest) : FGe(rest[i].score, last.score)})
       IN  SubSeq(rest, 1, k) \o <<last>> \o SubSeq(rest, k + 1, Len(rest))

\* extractImportantSentences
extractImportantSentences(transcripts, maxSentences) ==
  Slice(SortByScore(SelectSeq(scoresOf(transcripts),
                              LAMBDA s : FGt(s.score, Frac(0, 1)))),
        0, maxSentences)

\* generateSentenceCloudData: a Word without its random position and its
\* timestamp; frequency = Math.round(score / 10) and
\* size = 0.3 + normalizedScore * 0.5 as a fraction
\* (importantSentences is computed once, as in the code)
generateSentenceCloudData(transcripts, maxSentences) ==
  CHOOSE words \in
    {IF Len(importantSentences) = 0 THEN <<>>
     ELSE LET maxScore == importantSentences[1].score
              minScore == importantSentences[Len(importantSentences)].score
              diff == Frac(maxScore.n * minScore.d - minScore.n * maxScore.d,
                           maxScore.d * minScore.d)
              range == IF diff.n = 0 THEN Frac(1, 1) ELSE diff
          IN  [i \in 1..Len(importantSentences) |->
                 LET score == importantSentences[i].score
                     above == Frac(score.n * minScore.d - minScore.n * score.d,
                                   score.d * minScore.d)
                 IN  [text |-> importantSentences[i].text,
                      frequency |-> (2 * score.n + 10 * score.d) \div (20 * score.d),
                      size |-> FAdd(Frac(3, 10),
                                    Frac(above.n * range.d, 2 * above.d * range.n))]]
       : importantSentences \in {extractImportantSentences(transcripts, maxSentences)}}
    : TRUE

(***************************************************************************)
(* TranscriptionDataManager (lib/transcription-data-manager.ts).  It keeps *)
(* its transcripts in a store of the same schema as the hook's, which      *)
(* buffer stands for in the runs of the manager, and its sessions in the   *)
(* store 'sessions'.                                                       *)
(*                                                                         *)
(* A request is applied to its store when it is placed: the transactions   *)
(* on one object store run in the order they were created, and the         *)
(* shortcuts db.get and db.put create theirs at once.  The results on the  *)
(* store 'sessions' are delivered in that same order (sessQ).              *)
(***************************************************************************)
\* the texts of the transcripts the manager is given, as lists of characters
MgrTexts == {<<"a", "b">>, <<"a", "b", " ", "a", "b">>}

\* the manager's calls that may be in flight at once
Calls == {"c1", "c2"}

\* text.split(/\s+/).length: one more than the number of maximal runs of
\* white space
SplitLength(text) ==
  1 + Cardinality({j \in 1..Len(text) :
                     text[j] = " " /\ (j = 1 \/ text[j - 1] # " ")})

\* generateSessionId: the local time cut to the second, two clock ticks of
\* the model making one second
generateSessionId(t) == (t + 1) \div 2

NoSession == [id |-> 0]

\* no wordCloudSnapshot in a session
NoSnapshot == [generatedAt |-> 0]
NoSessions == [k \in {} |-> NoSession]

\* the session startSession stores
NewSession(sessionId, t) ==
  [id |-> sessionId, createdAt |-> t, updatedAt |-> t,
   totalTranscripts |-> 0, totalWords |-> 0, wordCloudSnapshot |-> NoSnapshot]

\* sessions left in the store by earlier runs of the program; the one with
\* the larger id was created first
OldSessions ==
  [k \in {11, 12} |->
     [id |-> k, createdAt |-> 12 - k, updatedAt |-> 1,
      totalTranscripts |-> 1, totalWords |-> 2, wordCloudSnapshot |-> NoSnapshot]]

\* what the store 'sessions' may hold when the program starts
InitialSessions ==
  {NoSessions, [k \in {11} |-> OldSessions[k]], OldSessions}

\* db.put(SESSIONS_STORE, session): keyPath 'id'
PutSession(store, session) ==
  [k \in (DOMAIN store) \cup {session.id} |->
     IF k = session.id THEN session ELSE store[k]]

\* db.get(SESSIONS_STORE, sessionId): undefined when there is none
GetSession(store, sessionId) ==
  IF sessionId \in DOMAIN store THEN store[sessionId] ELSE NoSession

\* getLatestSession: index 'by-created' (metadata.createdAt), openCursor(null,
\* 'prev'): the session created last, the largest id among equals
getLatestSession(store) ==
  IF DOMAIN store = {} THEN NoSession
  ELSE store[CHOOSE k \in DOMAIN store :
               \A j \in DOMAIN store :
                 \/ store[j].createdAt < store[k].createdAt
                 \/ (store[j].createdAt = store[k].createdAt /\ j <= k)]

\* getTranscripts(limit: number = 100), scaled down with the cap
getTranscriptsLimit == 1

\* generateAndSaveWordCloud(displayMode, maxItems: number = 50, version)
maxWordItems == 50

\* getTranscripts(limit): cursor 'prev' while transcripts.length < limit
getTranscripts(store, limit) == Slice(CursorPrev(store, DOMAIN store), 0, limit)

\* updateSessionMetadata lines 741-743: the session as it is put back
Updated(session, text, t) ==
  [session EXCEPT !.updatedAt = t,
                  !.totalTranscripts = @ + 1,
                  !.totalWords = @ + SplitLength(text)]

\* getAllTranscripts: getAllFromIndex and the sort by timestamp, descending
getAllTranscripts(store) == CursorPrev(store, DOMAIN store)

\* generateAndSaveWordCloud lines 251-256: the ranking of the texts read
CloudData(transcripts, displayMode, maxItems) ==
  LET texts == [i \in 1..Len(transcripts) |-> transcripts[i].text]
  IN  IF displayMode = "sentences"
      THEN generateSentenceCloudData(texts, maxItems)
      ELSE generateWordCloudData(texts, maxItems)

\* a snapshot that keeps the version of the snapshot it replaces
SnapshotKeepsVersion(session, rec, t) ==
  [generatedAt |-> t, displayMode |-> rec.displayMode, words |-> rec.words,
   version |-> IF session.wordCloudSnapshot = NoSnapshot THEN rec.version
               ELSE session.wordCloudSnapshot.version]

\* saveWordCloudSnapshot lines 290-295: the snapshot of a call
Snapshot(session, rec, t) ==
  [generatedAt |-> t, displayMode |-> rec.displayMode, words |-> rec.words,
   version |-> rec.version]

\* saveWordCloudSnapshot lines 297-299: the session as it is put back
WithSnapshot(session, rec, t) ==
  [session EXCEPT !.wordCloudSnapshot = Snapshot(session, rec, t), !.updatedAt = t]

\* getCurrentSession lines 343-348 and JSON.stringify: the document
Document(session, transcripts) ==
  [id |-> session.id,
   metadata |-> [createdAt |-> session.createdAt, updatedAt |-> session.updatedAt,
                 totalTranscripts |-> session.totalTranscripts,
                 totalWords |-> session.totalWords],
   transcripts |-> transcripts,
   wordCloudData |-> session.wordCloudSnapshot]

NoDocument == [id |-> 0]

\* the locals of one call
IdleCall ==
  [pc |-> "idle", kind |-> "none", text |-> <<>>, sessionId |-> 0,
   session |-> NoSession, how |-> "none", ret |-> NoDocument,
   displayMode |-> "none", version |-> "none", words |-> <<>>, read |-> <<>>]

NoStats ==
  [started |-> 0, completed |-> 0, words |-> 0, generated |-> 0, made |-> {},
   cleared |-> FALSE]

\* the data manager before its first call, on a store of sessions
MgrInit(store) ==
  /\ sessions = store
  /\ currentSessionId = 0
  /\ calls = [c \in Calls |-> IdleCall]
  /\ sessQ = <<>>
  /\ stats = NoStats

\* getCurrentSessionId lines 187-194 followed by the caller's db.get of the
\* session (lines 216-217 and 727-728, 283-286, 332-335): the call record
\* after the request it places
AskSession(rec) ==
  IF currentSessionId # 0
  THEN [rec EXCEPT !.pc = "get", !.sessionId = currentSessionId,
                   !.session = GetSession(sessions, currentSessionId)]
  ELSE [rec EXCEPT !.pc = "latest", !.session = getLatestSession(sessions)]

\* addTranscript lines 206-210: db.put(TRANSCRIPTS_STORE, transcript)
addTranscript(c, text, t) ==
  /\ calls[c].pc = "idle"
  /\ stats.started < MaxAdds
  /\ buffer' = Put(buffer, [text |-> text, timestamp |-> t, isFinal |-> TRUE])
  /\ now' = t
  /\ calls' = [calls EXCEPT ![c] = [IdleCall EXCEPT !.pc = "put", !.kind = "add", !.text = text]]
  /\ stats' = [stats EXCEPT !.started = @ + 1, !.cleared = FALSE]
  /\ UNCHANGED <<remote, isSyncing, lastSyncTime, syncIntervalId, timers, sync, export, lastOp,
                 appended, sessions, currentSessionId, sessQ>>

\* addTranscript lines 206-210 when db.put(TRANSCRIPTS_STORE, transcript) is
\* going to fail: the store keeps what it holds
addTranscriptFails(c, text, t) ==
  /\ calls[c].pc = "idle"
  /\ stats.started < MaxAdds
  /\ now' = t
  /\ calls' = [calls EXCEPT ![c] =
                 [IdleCall EXCEPT !.pc = "put", !.kind = "add", !.text = text, !.how = "fail"]]
  /\ stats' = [stats EXCEPT !.started = @ + 1, !.cleared = FALSE]
  /\ UNCHANGED <<buffer, remote, isSyncing, lastSyncTime, syncIntervalId, timers, sync, export, lastOp,
                 appended, sessions, currentSessionId, sessQ>>

\* a failed put that is taken for done
AddPutFailedGoesOn(c) ==
  /\ calls[c].pc = "put" /\ calls[c].how = "fail"
  /\ calls' = [calls EXCEPT ![c] = AskSession(@)]
  /\ sessQ' = Append(sessQ, c)
  /\ UNCHANGED <<buffer, remote, now, isSyncing, lastSyncTime, syncIntervalId, timers, sync, export,
                 lastOp, appended, sessions, currentSessionId, stats>>

\* addTranscript line 210: the put has failed and the await throws; nothing
\* catches it in addTranscript
AddPutFailed(c) ==
  /\ calls[c].pc = "put" /\ calls[c].how = "fail"
  /\ calls' = [calls EXCEPT ![c] = [@ EXCEPT !.pc = "done", !.how = "threw"]]
  /\ UNCHANGED <<buffer, remote, now, isSyncing, lastSyncTime, syncIntervalId, timers, sync, export,
                 lastOp, appended, sessions, currentSessionId, sessQ, stats>>

\* addTranscript lines 212-214: the put is done, the session is asked for
AddPutDone(c) ==
  /\ calls[c].pc = "put" /\ calls[c].how # "fail"
  /\ calls' = [calls EXCEPT ![c] = AskSession(@)]
  /\ sessQ' = Append(sessQ, c)
  /\ UNCHANGED <<buffer, remote, now, isSyncing, lastSyncTime, syncIntervalId, timers, sync, export,
                 lastOp, appended, sessions, currentSessionId, stats>>

\* saveWordCloudSnapshot lines 279-286 and getCurrentSession /
\* exportSessionAsJSON lines 331-335, 404-405: the session is asked for
CallStart(c, kind) ==
  /\ calls[c].pc = "idle"
  /\ calls' = [calls EXCEPT ![c] = AskSession([IdleCall EXCEPT !.kind = kind])]
  /\ sessQ' = Append(sessQ, c)
  /\ UNCHANGED <<buffer, remote, now, isSyncing, lastSyncTime, syncIntervalId, timers, sync, export,
                 lastOp, appended, sessions, currentSessionId, stats>>

exportSessionAsJSON(c) == CallStart(c, "export")

\* saveWordCloudSnapshot(displayMode, words, version) lines 279-286
saveWordCloudSnapshot(c, displayMode, words, version) ==
  /\ calls[c].pc = "idle"
  /\ calls' = [calls EXCEPT ![c] =
                 AskSession([IdleCall EXCEPT !.kind = "snapshot", !.displayMode = displayMode,
                                             !.words = words, !.version = version])]
  /\ sessQ' = Append(sessQ, c)
  /\ UNCHANGED <<buffer, remote, now, isSyncing, lastSyncTime, syncIntervalId, timers, sync, export,
                 lastOp, appended, sessions, currentSessionId, stats>>

\* generateAndSaveWordCloud(displayMode, maxItems, version) line 238: the
\* transcripts are asked for
generateAndSaveWordCloud(c, displayMode, version) ==
  /\ calls[c].pc = "idle"
  /\ stats.generated < MaxGens
  /\ stats' = [stats EXCEPT !.generated = @ + 1]
  /\ calls' = [calls EXCEPT ![c] =
                 [IdleCall EXCEPT !.pc = "all", !.kind = "generate",
                                  !.displayMode = displayMode, !.version = version,
                                  !.read = getAllTranscripts(buffer)]]
  /\ UNCHANGED <<buffer, remote, now, isSyncing, lastSyncTime, syncIntervalId, timers, sync, export,
                 lastOp, appended, sessions, currentSessionId, sessQ>>

\* generateAndSaveWordCloud lines 240-259: the transcripts have been read;
\* with none the call returns [], else the ranking is computed and
\* saveWordCloudSnapshot asks for the session
AllReply(c) ==
  /\ calls[c].pc = "all"
  /\ IF Len(calls[c].read) = 0
     THEN /\ calls' = [calls EXCEPT ![c] = [@ EXCEPT !.pc = "done", !.how = "ok"]]
          /\ UNCHANGED sessQ
     ELSE /\ calls' = [calls EXCEPT ![c] =
                         AskSession([@ EXCEPT !.words = CloudData(calls[c].read,
                                                                  calls[c].displayMode,
                                                                  maxWordItems),
                                              !.read = <<>>])]
          /\ sessQ' = Append(sessQ, c)
  /\ UNCHANGED <<buffer, remote, now, isSyncing, lastSyncTime, syncIntervalId, timers, sync, export,
                 lastOp, appended, sessions, currentSessionId, stats>>

\* getCurrentSessionId lines 193-200 once getLatestSession has answered:
\* resume the latest session, or startSession (lines 153-168)
LatestReply(c, t) ==
  /\ sessQ # <<>> /\ Head(sessQ) = c
  /\ calls[c].pc = "latest"
  /\ IF calls[c].session.id # 0
     THEN /\ currentSessionId' = calls[c].session.id
          /\ calls' = [calls EXCEPT ![c] =
                         [@ EXCEPT !.pc = "get", !.sessionId = calls[c].session.id,
                                   !.session = GetSession(sessions, calls[c].session.id)]]
          /\ t = now
          /\ UNCHANGED <<sessions, now>>
     ELSE /\ sessions' = PutSession(sessions, NewSession(generateSessionId(t), t))
          /\ calls' = [calls EXCEPT ![c] =
                         [@ EXCEPT !.pc = "start", !.sessionId = generateSessionId(t)]]
          /\ now' = t
          /\ UNCHANGED currentSessionId
  /\ sessQ' = Append(Tail(sessQ), c)
  /\ UNCHANGED <<buffer, remote, isSyncing, lastSyncTime, syncIntervalId, timers, sync, export,
                 lastOp, appended, stats>>

\* startSession lines 170-181 once the put is done, then the caller's db.get
StartReply(c) ==
  /\ sessQ # <<>> /\ Head(sessQ) = c
  /\ calls[c].pc = "start"
  /\ currentSessionId' = calls[c].sessionId
  /\ calls' = [calls EXCEPT ![c] =
                 [@ EXCEPT !.pc = "get", !.session = GetSession(sessions, calls[c].sessionId)]]
  /\ sessQ' = Append(Tail(sessQ), c)
  /\ UNCHANGED <<buffer, remote, now, isSyncing, lastSyncTime, syncIntervalId, timers, sync, export,
                 lastOp, appended, sessions, stats>>

\* the session has been read.  updateSessionMetadata lines 730-745,
\* saveWordCloudSnapshot lines 287-300, getCurrentSession lines 336-341
GetReply(c, t) ==
  /\ sessQ # <<>> /\ Head(sessQ) = c
  /\ calls[c].pc = "get"
  /\ LET rec == calls[c]
     IN  IF rec.session.id = 0
         THEN /\ calls' = [calls EXCEPT ![c] =
                   [@ EXCEPT !.pc = "done",
                             !.how = IF rec.kind = "add" THEN "nosession" ELSE "threw"]]
              /\ sessQ' = Tail(sessQ)
              /\ t = now
              /\ UNCHANGED <<sessions, now>>
         ELSE IF rec.kind = "add"
         THEN /\ sessions' = PutSession(sessions, Updated(rec.session, rec.text, t))
              /\ calls' = [calls EXCEPT ![c].pc = "update"]
              /\ sessQ' = Append(Tail(sessQ), c)
              /\ now' = t
         ELSE IF rec.kind \in {"snapshot", "generate"}
         THEN /\ sessions' = PutSession(sessions, WithSnapshot(rec.session, rec, t))
              /\ calls' = [calls EXCEPT ![c].pc = "update"]
              /\ sessQ' = Append(Tail(sessQ), c)
              /\ now' = t
         ELSE /\ calls' = [calls EXCEPT ![c] =
                   [@ EXCEPT !.pc = "read",
                             !.ret = Document(rec.session,
                                              getTranscripts(buffer, getTranscriptsLimit))]]
              /\ sessQ' = Tail(sessQ)
              /\ t = now
              /\ UNCHANGED <<sessions, now>>
  /\ stats' = IF calls[c].kind = "generate" /\ calls[c].session.id # 0
              THEN [stats EXCEPT !.made = @ \cup {[at |-> t, displayMode |-> calls[c].displayMode,
                                                   words |-> calls[c].words,
                                                   version |-> calls[c].version]}]
              ELSE stats
  /\ UNCHANGED <<buffer, remote, isSyncing, lastSyncTime, syncIntervalId, timers, sync, export,
                 lastOp, appended, currentSessionId>>

\* the put of the session is done: the call returns
UpdateReply(c) ==
  /\ sessQ # <<>> /\ Head(sessQ) = c
  /\ calls[c].pc = "update"
  /\ calls' = [calls EXCEPT ![c] = [@ EXCEPT !.pc = "done", !.how = "ok"]]
  /\ sessQ' = Tail(sessQ)
  /\ stats' = IF calls[c].kind = "add"
              THEN [stats EXCEPT !.completed = @ + 1,
                                 !.words = @ + SplitLength(calls[c].text)]
              ELSE stats
  /\ UNCHANGED <<buffer, remote, now, isSyncing, lastSyncTime, syncIntervalId, timers, sync, export,
                 lastOp, appended, sessions, currentSessionId>>

\* getTranscripts has answered: exportSessionAsJSON returns the document
ExportReply(c) ==
  /\ calls[c].pc = "read"
  /\ calls' = [calls EXCEPT ![c] = [@ EXCEPT !.pc = "done", !.how = "ok"]]
  /\ UNCHANGED <<buffer, remote, now, isSyncing, lastSyncTime, syncIntervalId, timers, sync, export,
                 lastOp, appended, sessions, currentSessionId, sessQ, stats>>

\* clearAll lines 386-388: db.clear(TRANSCRIPTS_STORE)
clearAll(c) ==
  /\ calls[c].pc = "idle"
  /\ buffer' = EmptyStore
  /\ calls' = [calls EXCEPT ![c] = [IdleCall EXCEPT !.pc = "clearT", !.kind = "clear"]]
  /\ UNCHANGED <<remote, now, isSyncing, lastSyncTime, syncIntervalId, timers, sync, export,
                 lastOp, appended, sessions, currentSessionId, sessQ, stats>>

\* clearAll line 389: the store of transcripts is cleared,
\* db.clear(SESSIONS_STORE)
ClearTranscriptsDone(c) ==
  /\ calls[c].pc = "clearT"
  /\ sessions' = NoSessions
  /\ calls' = [calls EXCEPT ![c].pc = "clearS"]
  /\ sessQ' = Append(sessQ, c)
  /\ UNCHANGED <<buffer, remote, now, isSyncing, lastSyncTime, syncIntervalId, timers, sync, export,
                 lastOp, appended, currentSessionId, stats>>

\* clearAll lines 391-398: the store of sessions is cleared,
\* this.currentSessionId = null, and the call returns
ClearSessionsDone(c) ==
  /\ sessQ # <<>> /\ Head(sessQ) = c
  /\ calls[c].pc = "clearS"
  /\ currentSessionId' = 0
  /\ calls' = [calls EXCEPT ![c] = [@ EXCEPT !.pc = "done", !.how = "ok"]]
  /\ sessQ' = Tail(sessQ)
  /\ stats' = [stats EXCEPT !.cleared = TRUE]
  /\ UNCHANGED <<buffer, remote, now, isSyncing, lastSyncTime, syncIntervalId, timers, sync, export,
                 lastOp, appended, sessions>>

\* the caller has the result; the slot is free again
CallSettle(c) ==
  /\ calls[c].pc = "done"
  /\ calls' = [calls EXCEPT ![c] = IdleCall]
  /\ UNCHANGED <<buffer, remote, now, isSyncing, lastSyncTime, syncIntervalId, timers, sync, export,
                 lastOp, appended, sessions, currentSessionId, sessQ, stats>>

\* the steps of the calls in flight
ReplyNext ==
  \/ \E c \in Calls : AddPutDone(c)
  \/ \E c \in Calls, t \in DateNow : LatestReply(c, t)
  \/ \E c \in Calls : StartReply(c)
  \/ \E c \in Calls, t \in DateNow : GetReply(c, t)
  \/ \E c \in Calls : UpdateReply(c)
  \/ \E c \in Calls : CallSettle(c)

\* addTranscript calls only
AddNext ==
  \/ \E c \in Calls, text \in MgrTexts, t \in DateNow : addTranscript(c, text, t)
  \/ ReplyNext

\* addTranscript and clearAll calls
ClearNext ==
  \/ AddNext
  \/ \E c \in Calls : clearAll(c)
  \/ \E c \in Calls : ClearTranscriptsDone(c)
  \/ \E c \in Calls : ClearSessionsDone(c)

\* addTranscript calls whose put may fail
AddFailNext ==
  \/ AddNext
  \/ \E c \in Calls, text \in MgrTexts, t \in DateNow : addTranscriptFails(c, text, t)
  \/ \E c \in Calls : AddPutFailed(c)

\* addTranscript and saveWordCloudSnapshot calls
SnapNext ==
  \/ AddNext
  \/ \E c \in Calls : saveWordCloudSnapshot(c, "words", <<>>, "v1.0.0")

\* what generateAndSaveWordCloud is called with: a display mode and a version
GenArgs == {<<"words", "v1.0.0">>, <<"sentences", "v2.0.0">>}

\* one addTranscript call, and generateAndSaveWordCloud calls
GenNext ==
  \/ \E c \in Calls, t \in DateNow :
       stats.started = 0 /\ addTranscript(c, <<"a", "b", " ", "a", "b">>, t)
  \/ ReplyNext
  \/ \E c \in Calls, args \in GenArgs : generateAndSaveWordCloud(c, args[1], args[2])
  \/ \E c \in Calls : AllReply(c)

\* addTranscript and exportSessionAsJSON calls
DocNext ==
  \/ AddNext
  \/ \E c \in Calls : exportSessionAsJSON(c)
  \/ \E c \in Calls : ExportReply(c)

(***************************************************************************)
(* The program: the hook appends results, the timer and the user start     *)
(* syncs and exports, and the pending requests complete in any order.      *)
(***************************************************************************)
NoOp == [op |-> "none"]

\* the stores, the clock and the sync manager when the program starts
StoresStart ==
  /\ buffer = EmptyStore
  /\ remote = {}
  /\ now = 1
  /\ isSyncing = FALSE
  /\ lastSyncTime = 0
  /\ syncIntervalId = FALSE
  /\ timers = 0
  /\ sync = [p \in Slots |-> IdleSync]
  /\ export = IdleExport
  /\ appended = {}

StoresInit == StoresStart /\ lastOp = NoOp

Init == StoresInit /\ MgrInit(NoSessions)

\* the data manager on a store of sessions left by earlier runs, or on none
InitMgr == StoresInit /\ \E store \in InitialSessions : MgrInit(store)

StoreNext ==
  \E text \in Spoken, t \in DateNow : saveToIndexedDB(text, t)

CycleNext ==
  \/ \E p \in Slots, fails \in BOOLEAN : SyncCount(p, fails)
  \/ \E p \in Slots, fails \in BOOLEAN : SyncScan(p, fails)
  \/ \E p \in Slots, fails \in BOOLEAN : SyncDelete(p, fails)
  \/ \E p \in Slots, ok \in BOOLEAN, t \in DateNow : SyncPush(p, ok, t)
  \/ \E p \in Slots : SyncSettle(p)

TimerNext ==
  \/ startAutoSync
  \/ stopAutoSync
  \/ TimerFire

ExportNext ==
  \/ ExportCall
  \/ \E fails \in BOOLEAN : ExportRead(fails)
  \/ \E ok \in BOOLEAN : ExportPush(ok)
  \/ ExportSettle

Next ==
  \/ StoreNext
  \/ CycleNext
  \/ TimerNext
  \/ manualSync

(***************************************************************************)
(* The store's functions called one after the other on a store of any      *)
(* content: every timestamp, text and finality flag, overwrites included.  *)
(***************************************************************************)
Transcripts == [text : Texts, timestamp : 1..MaxKey, isFinal : BOOLEAN]

BufPut(t) ==
  /\ buffer' = Put(buffer, t)
  /\ lastOp' = [op |-> "put", t |-> t]
  /\ appended' = appended \cup {t.timestamp}
  /\ UNCHANGED <<remote, now, isSyncing, lastSyncTime, syncIntervalId, timers, sync, export, mgrVars>>

BufDeleteOld(keepCount) ==
  LET r == deleteOldFromIndexedDB(buffer, keepCount)
  IN  /\ buffer' = r.store
      /\ lastOp' = [op |-> "deleteOld", keepCount |-> keepCount,
                    before |-> buffer, ret |-> r.ret]
      /\ UNCHANGED <<remote, now, isSyncing, lastSyncTime, syncIntervalId, timers, sync, export, appended, mgrVars>>

BufNext ==
  \/ \E t \in Transcripts : BufPut(t)
  \/ \E keepCount \in 0..(MaxKey + 1) : BufDeleteOld(keepCount)

SpecBuf == Init /\ [][BufNext]_vars

\* the reads of the store: they change nothing and hand back a result
BufRead(op, limit, ret) ==
  /\ lastOp' = [op |-> op, limit |-> limit, ret |-> ret]
  /\ UNCHANGED <<buffer, remote, now, isSyncing, lastSyncTime, syncIntervalId, timers, sync,
                 export, appended, mgrVars>>

BufGetLatest(limit) == BufRead("getLatest", limit, getLatestFromIndexedDB(buffer, limit))
BufGetAll == BufRead("getAll", 0, getAllFromIndexedDB(buffer))
BufCount == BufRead("count", 0, getIndexedDBCount(buffer))

\* saves and reads with no eviction in between
ReadNext ==
  \/ \E t \in Transcripts : BufPut(t)
  \/ \E limit \in 0..(MaxKey + 1) : BufGetLatest(limit)
  \/ BufGetAll
  \/ BufCount

SpecRead == Init /\ [][ReadNext]_vars

(***************************************************************************)
(* The rankings computed one after the other on lists of texts.            *)
(***************************************************************************)
\* three times a word, with blanks between
Thrice(word) == word \o <<" ">> \o word \o <<" ">> \o word

\* the texts ranked in word mode: "", "do a", "A do", "Abc Abc Abc",
\* "abc abc abc", "ab, ab. ab", "1 11 ab" and "cd"
WordTexts ==
  {<<>>, <<"d", "o", " ", "a">>, <<"A", " ", "d", "o">>,
   Thrice(<<"A", "b", "c">>), Thrice(<<"a", "b", "c">>),
   <<"a", "b", ",", " ", "a", "b", ".", " ", "a", "b">>,
   <<"1", " ", "1", "1", " ", "a", "b">>, <<"c", "d">>}

\* the lists of at most n texts of a set
ListsOf(texts, n) == UNION {[1..k -> texts] : k \in 0..n}

\* the texts and the limit of a ranking that is about to be computed
InitWords ==
  /\ StoresStart
  /\ MgrInit(NoSessions)
  /\ \E transcripts \in ListsOf(WordTexts, MaxTexts), maxWords \in {1, 2, 50} :
       lastOp = [op |-> "input", transcripts |-> transcripts, maxWords |-> maxWords]

\* generateWordCloudData(transcripts, maxWords)
RankWords ==
  /\ lastOp.op = "input"
  /\ lastOp' = [op |-> "words", transcripts |-> lastOp.transcripts,
                maxWords |-> lastOp.maxWords,
                ret |-> generateWordCloudData(lastOp.transcripts, lastOp.maxWords)]
  /\ UNCHANGED <<buffer, remote, now, isSyncing, lastSyncTime, syncIntervalId, timers, sync,
                 export, appended, mgrVars>>

SpecWords == InitWords /\ [][RankWords]_vars

\* the texts ranked in sentence mode, each a sentence with its end:
\* "ab cd", "ab cd ef", "gh ij", "ab", "ab gh ij kl" with a newline, and
\* "ab cd" and "cd ab" "cd ab" with ideographic full stops
SentenceTexts ==
  {<<"a", "b", " ", "c", "d", "\n">>,
   <<"a", "b", " ", "c", "d", " ", "e", "f", "\n">>,
   <<"g", "h", " ", "i", "j", "\n">>,
   <<"a", "b", "\n">>,
   <<"a", "b", " ", "g", "h", " ", "i", "j", " ", "k", "l", "\n">>,
   <<"a", "b", " ", "c", "d", "U+3002">>,
   <<"c", "d", " ", "a", "b", "U+3002", "c", "d", " ", "a", "b", "U+3002">>}

\* the texts and the limit of a sentence ranking that is about to be computed
InitSentences ==
  /\ StoresStart
  /\ MgrInit(NoSessions)
  /\ \E transcripts \in ListsOf(SentenceTexts, MaxTexts), maxSentences \in {1, 2, 15} :
       lastOp = [op |-> "texts", transcripts |-> transcripts,
                 maxSentences |-> maxSentences]

\* generateSentenceCloudData(transcripts, maxSentences)
RankSentences ==
  /\ lastOp.op = "texts"
  /\ lastOp' = [op |-> "sentences", transcripts |-> lastOp.transcripts,
                maxSentences |-> lastOp.maxSentences,
                ret |-> generateSentenceCloudData(lastOp.transcripts, lastOp.maxSentences)]
  /\ UNCHANGED <<buffer, remote, now, isSyncing, lastSyncTime, syncIntervalId, timers, sync,
                 export, appended, mgrVars>>

SpecSentences == InitSentences /\ [][RankSentences]_vars

\* rankings in word mode and in sentence mode
SpecRank == (InitWords \/ InitSentences) /\ [][RankWords \/ RankSentences]_vars

\* the words calculateWordWeight is given: one to three letters, each a
\* lowercase letter, a capital or a katakana
WeightWords == UNION {[1..k -> {"a", "A", "U+30A2"}] : k \in 1..3}

\* a word and a frequency that are about to be weighed
InitWeights ==
  /\ StoresStart
  /\ MgrInit(NoSessions)
  /\ \E word \in WeightWords, frequency \in 1..MaxFreq :
       lastOp = [op |-> "token", word |-> word, frequency |-> frequency]

\* calculateWordWeight(word, frequency)
WeighWord ==
  /\ lastOp.op = "token"
  /\ lastOp' = [op |-> "weight", word |-> lastOp.word, frequency |-> lastOp.frequency,
                ret |-> calculateWordWeight(lastOp.word, lastOp.frequency)]
  /\ UNCHANGED <<buffer, remote, now, isSyncing, lastSyncTime, syncIntervalId, timers, sync,
                 export, appended, mgrVars>>

SpecWeights == InitWeights /\ [][WeighWord]_vars

\* the scheduler, the hook's appends and the user's manual syncs
Spec == Init /\ [][Next]_vars

\* the same when the user never asks for a manual sync
SpecAuto == Init /\ [][StoreNext \/ CycleNext \/ TimerNext]_vars

\* the hook's appends, the user's manual syncs and the user's export-all
SpecExport == Init /\ [][StoreNext \/ CycleNext \/ manualSync \/ ExportNext]_vars

\* the program when no request fails: every store operation and every insert
\* into the remote table succeeds
NoFailNext ==
  \/ StoreNext
  \/ \E p \in Slots : SyncCount(p, FALSE)
  \/ \E p \in Slots : SyncScan(p, FALSE)
  \/ \E p \in Slots : SyncDelete(p, FALSE)
  \/ \E p \in Slots, t \in DateNow : SyncPush(p, TRUE, t)
  \/ \E p \in Slots : SyncSettle(p)
  \/ TimerNext
  \/ manualSync

SpecNoFail == Init /\ [][NoFailNext]_vars

\* one step of invocation p: a pending store or network request completes
CycleStep(p) ==
  \/ \E fails \in BOOLEAN : SyncCount(p, fails)
  \/ \E fails \in BOOLEAN : SyncScan(p, fails)
  \/ \E fails \in BOOLEAN : SyncDelete(p, fails)
  \/ \E ok \in BOOLEAN, t \in DateNow : SyncPush(p, ok, t)

\* SpecAuto when every request of an invocation in flight completes in the
\* end, with success or with an error
SpecAutoLive == SpecAuto /\ \A p \in Slots : WF_vars(CycleStep(p))

\* the data manager under addTranscript calls, overlapping or not
SpecAdd == InitMgr /\ [][AddNext]_vars

\* the data manager under addTranscript calls whose put may fail
SpecAddFail == InitMgr /\ [][AddFailNext]_vars

\* the data manager under addTranscript and clearAll calls
SpecClear == InitMgr /\ [][ClearNext]_vars

\* the data manager under addTranscript and saveWordCloudSnapshot calls
SpecSnap == InitMgr /\ [][SnapNext]_vars

\* the data manager under one addTranscript call and generateAndSaveWordCloud
\* calls
SpecGen == InitMgr /\ [][GenNext]_vars

\* the data manager under addTranscript and exportSessionAsJSON calls
SpecDoc == InitMgr /\ [][DocNext]_vars

(***************************************************************************)
(* Properties.                                                             *)
(***************************************************************************)

\* C1: in every reachable state at most one syncToSupabase invocation is
\* executing (has passed the guard and not reached its finally block),
\* whatever the interleaving of timer-fired, initial and manual syncs.
C1_AtMostOneSyncExecuting == Cardinality(InFlight) <= 1

\* C2: a forced call syncToSupabase(true) issued while another sync is in
\* flight is skipped: it returns 0 at once and never reaches the count, the
\* eviction or a push.
C2_ForcedCallIsSkipped ==
  [][\A p \in Slots :
       (sync[p].pc = "idle" /\ sync'[p].pc # "idle" /\ sync'[p].force /\ InFlight # {})
         => (sync'[p].pc = "done" /\ sync'[p].how = "skipped" /\ sync'[p].ret = 0)]_vars

\* C3: of any overlapping non-forced syncToSupabase() calls exactly one passes
\* the guard and every other returns 0 at once: at no time are two non-forced
\* invocations executing.
C3_NonForcedCallsExclusive == Cardinality({p \in InFlight : ~sync[p].force}) <= 1

\* C4: exportAllToSupabase shares the sync guard: an export-all is never in
\* flight while a syncToSupabase invocation is executing.
C4_ExportSharesGuard == ~(Exporting /\ InFlight # {})

\* the rows of the k-th batch of a list of n rows
BatchOf(rows, k) == Slice(rows, (k - 1) * SYNC_BATCH_SIZE, k * SYNC_BATCH_SIZE)

\* C5: the entries a cycle evicts have left the local buffer before their
\* batch is pushed, and the entries of a batch whose push failed are from then
\* on neither in the local buffer nor in the remote table.
C5_FailedBatchIsLost ==
  \A p \in Slots :
    sync[p].pc = "push" =>
      /\ SeqStamps(sync[p].toSync) \cap DOMAIN buffer = {}
      /\ \A k \in 1..Len(sync[p].log) :
           sync[p].log[k] = "fail" =>
             SeqStamps(BatchOf(sync[p].toSync, k)) \cap (DOMAIN buffer \cup Stamps(remote)) = {}

\* the number of rows of the k-th batch of n rows
BatchLen(n, k) == Min(SYNC_BATCH_SIZE, n - (k - 1) * SYNC_BATCH_SIZE)

RECURSIVE OkRows(_, _, _)
\* the rows inserted by the batches 1..k that the log records as succeeded
OkRows(log, n, k) ==
  IF k = 0 THEN 0
  ELSE OkRows(log, n, k - 1) + (IF log[k] = "ok" THEN BatchLen(n, k) ELSE 0)

\* C6: every insertTranscripts call of a cycle is the next batch in order,
\* attempted once whether the batches before it failed or succeeded; a
\* failure neither ends the loop nor throws, and the cycle returns the sum
\* of the inserted counts of the batches that succeeded.
C6_BatchFailureIsSkipped ==
  [][\A p \in Slots :
       (sync[p].pc = "push" /\ sync'[p] # sync[p]) =>
         LET n == Len(sync[p].toSync)
             log == sync'[p].log
         IN  /\ sync[p].i = Len(sync[p].log) * SYNC_BATCH_SIZE
             /\ Len(log) = Len(sync[p].log) + 1
             /\ SubSeq(log, 1, Len(sync[p].log)) = sync[p].log
             /\ IF Len(log) * SYNC_BATCH_SIZE < n
                THEN /\ sync'[p].pc = "push"
                     /\ sync'[p].toSync = sync[p].toSync
                     /\ sync'[p].i = Len(log) * SYNC_BATCH_SIZE
                     /\ sync'[p].totalSynced = OkRows(log, n, Len(log))
                ELSE /\ sync'[p].pc = "done"
                     /\ sync'[p].how = "synced"
                     /\ sync'[p].ret = OkRows(log, n, Len(log))]_vars

\* C6 happens: a cycle whose first batch failed went on to its second batch,
\* which succeeded, and returned that batch's single row
C6_Witness ==
  \E p \in Slots :
    /\ sync[p].pc = "done" /\ sync[p].how = "synced"
    /\ sync[p].log = <<"fail", "ok">> /\ sync[p].ret = 1

\* a step in which invocation p returns a value (it does not throw)
Returns(p) ==
  /\ Executing(p)
  /\ sync'[p].pc = "done"
  /\ sync'[p].how \in {"undercap", "nothing", "synced"}

\* C7 as stated: at the moment any sync cycle returns, the local buffer holds
\* at most MAX_INDEXEDDB_COUNT entries, appends interleaved with the cycle or
\* not.
C7_AtMostCapAtReturn ==
  [][\A p \in Slots :
       Returns(p) => getIndexedDBCount(buffer') <= MAX_INDEXEDDB_COUNT]_vars

\* the timestamps invocation p has read from the store when it returns: the
\* scan of its eviction, or the store as counted or scanned in this very step
SeenAtReturn(p) ==
  IF sync[p].pc = "push" THEN SeqStamps(sync[p].allTranscripts) ELSE DOMAIN buffer

\* C7 (amended): at the moment any sync cycle returns, at most
\* MAX_INDEXEDDB_COUNT of the entries the cycle read from the local buffer
\* are still in it; entries appended after that read are not evicted by the
\* cycle, so the buffer may hold more than the cap at the return.
C7_AtMostCapOfSeenAtReturn ==
  [][\A p \in Slots :
       Returns(p) =>
         Cardinality(SeenAtReturn(p) \cap DOMAIN buffer') <= MAX_INDEXEDDB_COUNT]_vars

\* C7 happens: a cycle that evicted and pushed has returned, and an append
\* made while it ran leaves the buffer above the cap
C7_Witness ==
  \E p \in Slots :
    /\ sync[p].pc = "done" /\ sync[p].how = "synced"
    /\ getIndexedDBCount(buffer) > MAX_INDEXEDDB_COUNT
    /\ \A q \in Slots \ {p} : sync[q].pc = "idle"

\* C8: deleteOldFromIndexedDB(keepCount) on a store of count entries removes
\* and returns exactly the max(0, count - keepCount) entries of smallest
\* timestamp, each as it was stored, and leaves the others untouched: the
\* keepCount entries of largest timestamp, or all of them (and the empty
\* list returned) when count <= keepCount.
C8_DeleteOldRemovesOldest ==
  lastOp.op = "deleteOld" =>
    LET before == lastOp.before
        ret == lastOp.ret
        count == Cardinality(DOMAIN before)
        removed == (DOMAIN before) \ (DOMAIN buffer)
    IN  /\ Len(ret) = (IF count > lastOp.keepCount THEN count - lastOp.keepCount ELSE 0)
        /\ Cardinality(SeqStamps(ret)) = Len(ret)
        /\ SeqStamps(ret) = removed
        /\ \A j \in 1..Len(ret) : ret[j] = before[ret[j].timestamp]
        /\ \A a \in removed, b \in DOMAIN buffer : a < b
        /\ DOMAIN buffer \subseteq DOMAIN before
        /\ \A k \in DOMAIN buffer : buffer[k] = before[k]
        /\ Cardinality(DOMAIN buffer) = Min(count, lastOp.keepCount)
        /\ (count <= lastOp.keepCount => ret = <<>> /\ buffer = before)

\* C8 happens: a call that had to evict several entries and keep several
C8_Witness ==
  /\ lastOp.op = "deleteOld"
  /\ Len(lastOp.ret) >= 2
  /\ lastOp.keepCount >= 2
  /\ \E j \in 1..Len(lastOp.ret) : ~lastOp.ret[j].isFinal /\ lastOp.ret[j].text = "b"

\* C9: the list deleteOldFromIndexedDB returns is ordered ascending by
\* timestamp, oldest entry first.
C9_ReturnedOldestFirst ==
  lastOp.op = "deleteOld" =>
    \A j, k \in 1..Len(lastOp.ret) :
      j < k => lastOp.ret[j].timestamp < lastOp.ret[k].timestamp

\* C10: a non-forced syncToSupabase() that finds count <= cap returns 0 and
\* changes nothing but the guard: the local buffer, the remote table and
\* lastSyncTime are as before and isSyncing is false afterwards.
C10_UnderCapChangesNothing ==
  [][\A p \in Slots :
       (/\ sync[p].pc = "count" /\ ~sync[p].force
        /\ getIndexedDBCount(buffer) <= MAX_INDEXEDDB_COUNT
        /\ sync'[p].pc # "count" /\ sync'[p].how # "threw")
         => /\ sync'[p].pc = "done" /\ sync'[p].ret = 0
            /\ buffer' = buffer
            /\ remote' = remote
            /\ lastSyncTime' = lastSyncTime
            /\ isSyncing' = FALSE
            /\ \A q \in Slots \ {p} : sync'[q] = sync[q]]_vars

\* C10 happens: a non-forced sync returned 0 on a non-empty buffer under the
\* cap, after an earlier cycle had recorded its lastSyncTime
C10_Witness ==
  \E p \in Slots :
    /\ sync[p].pc = "done" /\ sync[p].how = "undercap" /\ ~sync[p].force
    /\ sync[p].ret = 0
    /\ buffer # EmptyStore
    /\ lastSyncTime > 0
    /\ ~isSyncing

\* ceil(n / k)
Ceil(n, k) == (n + k - 1) \div k

RECURSIVE ConcatBatches(_, _)
\* the batches 1..k of a list of rows, one after the other
ConcatBatches(rows, k) ==
  IF k = 0 THEN <<>> ELSE ConcatBatches(rows, k - 1) \o BatchOf(rows, k)

\* C11: a cycle that evicts n entries (exactly those its scan found beyond
\* the MAX_INDEXEDDB_COUNT newest) pushes them in ceil(n / SYNC_BATCH_SIZE)
\* insertTranscripts calls, one after the other, each of 1..SYNC_BATCH_SIZE
\* rows; the k-th call carries the k-th slice of the evicted list and the
\* slices put end to end are the evicted list.
C11_EvictedListPushedInBatches ==
  [][\A p \in Slots :
       /\ (sync[p].pc = "delete" /\ sync'[p].pc = "push") =>
            /\ Len(sync[p].toSync) = Len(sync[p].allTranscripts) - MAX_INDEXEDDB_COUNT
            /\ \A a \in SeqStamps(sync[p].toSync),
                  b \in SeqStamps(sync[p].allTranscripts) \ SeqStamps(sync[p].toSync) : a < b
            /\ DOMAIN buffer' = (DOMAIN buffer) \ SeqStamps(sync[p].toSync)
            /\ sync'[p].toSync = sync[p].toSync
       /\ (sync[p].pc = "push" /\ sync'[p] # sync[p]) =>
            LET rows == ToRows(sync[p].toSync)
                n == Len(rows)
                k == Len(sync[p].log) + 1
                batch == BatchOf(rows, k)
            IN  /\ k <= Ceil(n, SYNC_BATCH_SIZE)
                /\ Len(batch) >= 1 /\ Len(batch) <= SYNC_BATCH_SIZE
                /\ Len(sync'[p].log) = k
                /\ remote' = IF sync'[p].log[k] = "ok" THEN remote \cup RowSet(batch) ELSE remote
                /\ (sync'[p].pc = "done") = (k = Ceil(n, SYNC_BATCH_SIZE))
                /\ ConcatBatches(rows, Ceil(n, SYNC_BATCH_SIZE)) = rows
                /\ \A j \in 1..n : rows[j] = ToRow(sync[p].toSync[j])]_vars

\* C11 happens: a cycle has sent its single evicted entry as one batch of
\* one row, and that row is in the remote table
C11_Witness ==
  \E p \in Slots :
    /\ sync[p].pc = "done" /\ sync[p].how = "synced"
    /\ sync[p].log = <<"ok">> /\ sync[p].ret = 1
    /\ Cardinality(remote) = 1
    /\ getIndexedDBCount(buffer) = MAX_INDEXEDDB_COUNT

\* C12: once stopAutoSync has returned no non-forced (timer-fired) cycle
\* starts until startAutoSync is called again; stopAutoSync touches no
\* invocation in flight, which goes on to attempt every remaining batch,
\* ends, and ends with isSyncing false.
C12_StopCancelsOnlyFutureFirings ==
  /\ [][\A p \in Slots :
          /\ (sync[p].pc = "idle" /\ sync'[p].pc # "idle" /\ ~sync'[p].force)
               => syncIntervalId'
          /\ (syncIntervalId /\ ~syncIntervalId')
               => (sync' = sync /\ isSyncing' = isSyncing /\ buffer' = buffer /\ remote' = remote)
          /\ (~syncIntervalId /\ sync[p].pc = "push" /\ sync'[p] # sync[p])
               => /\ Len(sync'[p].log) = Len(sync[p].log) + 1
                  /\ (sync'[p].pc = "done") =
                       (Len(sync'[p].log) = Ceil(Len(sync[p].toSync), SYNC_BATCH_SIZE))
          /\ (Executing(p) /\ sync'[p].pc = "done") => ~isSyncing']_vars
  /\ \A p \in Slots : (~syncIntervalId /\ Executing(p)) ~> (sync[p].pc = "done")

\* C12 happens: the timer has been stopped while a cycle it started is in
\* flight, between the first and the second of its batches
C12_Witness ==
  \E p \in Slots :
    /\ ~syncIntervalId
    /\ ~sync[p].force
    /\ sync[p].pc = "push"
    /\ Len(sync[p].log) = 1
    /\ isSyncing

\* C13: an error raised inside a timer-fired or initial automatic cycle (a
\* failing count, scan or delete of the local store; a failing remote push
\* does not even end the cycle) stays inside the scheduler: the failing step
\* leaves the timer as it is, the stores and lastSyncTime untouched and
\* isSyncing false, and the later firings are not skipped on its account.
C13_SchedulerSurvivesErrors ==
  [][\A p \in Slots :
       /\ (Executing(p) /\ ~sync[p].force /\ sync'[p].how = "threw")
            => /\ sync'[p].pc = "done"
               /\ ~isSyncing'
               /\ syncIntervalId' = syncIntervalId
               /\ buffer' = buffer /\ remote' = remote
               /\ lastSyncTime' = lastSyncTime
               /\ \A q \in Slots \ {p} : sync'[q] = sync[q]
       /\ (sync[p].pc = "push" /\ ~sync[p].force /\ sync'[p] # sync[p])
            => sync'[p].how # "threw"
       /\ (sync[p].how = "threw" /\ ~sync[p].force /\ sync'[p].pc = "idle")
            => UNCHANGED <<buffer, remote, isSyncing, lastSyncTime, syncIntervalId>>
       /\ \A q \in Slots \ {p} :
            (sync[p].how = "threw" /\ ~isSyncing /\ sync[q].pc = "idle" /\ sync'[q].pc # "idle")
              => sync'[q].pc = "count"]_vars

\* C13 happens: a timer-started cycle has failed, the timer is still set and
\* the next firing's cycle is under way, evicting
C13_Witness ==
  \E p, q \in Slots :
    /\ sync[p].pc = "done" /\ sync[p].how = "threw" /\ ~sync[p].force
    /\ syncIntervalId
    /\ sync[q].pc = "push" /\ ~sync[q].force
    /\ Len(sync[q].log) = 1

\* C14: when no store operation and no remote insert fails, then whenever no
\* cycle is in flight every timestamp the hook has ever saved is still in the
\* local buffer or is in the remote table.
C14_OverflowMovedNeverDropped ==
  InFlight = {} => appended \subseteq (DOMAIN buffer \cup Stamps(remote))

\* C14 happens: five entries were saved, cycles have moved the three oldest
\* to the remote table in two batches, and nothing is in flight
C14_Witness ==
  /\ InFlight = {}
  /\ Cardinality(appended) = 5
  /\ Cardinality(remote) = 3
  /\ getIndexedDBCount(buffer) = MAX_INDEXEDDB_COUNT
  /\ \E p \in Slots : sync[p].pc = "done" /\ sync[p].log = <<"ok", "ok">>

\* a list of entries in strictly descending order of timestamp
Descending(s) == \A j, k \in 1..Len(s) : j < k => s[j].timestamp > s[k].timestamp

\* C15: after saves of N pairwise distinct timestamps and no eviction,
\* getIndexedDBCount() is N, getLatestFromIndexedDB(k) is exactly the
\* min(k, N) entries of largest timestamp in strictly descending order, and
\* getAllFromIndexedDB() is all N entries in strictly descending order.
C15_ReadsReturnNewestFirst ==
  LET N == Cardinality(appended)
      ret == lastOp.ret
  IN  /\ lastOp.op = "count" => ret = N
      /\ lastOp.op = "getLatest" =>
           /\ Len(ret) = Min(lastOp.limit, N)
           /\ Descending(ret)
           /\ SeqStamps(ret) \subseteq appended
           /\ \A a \in SeqStamps(ret), b \in appended \ SeqStamps(ret) : a > b
           /\ \A j \in 1..Len(ret) : ret[j] = buffer[ret[j].timestamp]
      /\ lastOp.op = "getAll" =>
           /\ Len(ret) = N
           /\ Descending(ret)
           /\ SeqStamps(ret) = appended
           /\ \A j \in 1..Len(ret) : ret[j] = buffer[ret[j].timestamp]

\* C15 happens: a read of the 2 newest of 4 stored entries
C15_Witness ==
  /\ lastOp.op = "getLatest"
  /\ lastOp.limit = 2
  /\ Cardinality(appended) = 4
  /\ Len(lastOp.ret) = 2
  /\ lastOp.ret[1].timestamp = 4 /\ lastOp.ret[2].timestamp = 3

\* C16: saving an entry whose timestamp is already stored leaves the count
\* as it is and replaces the stored entry by the new one; every other entry
\* is untouched, and saving the same entry once more changes nothing.
C16_PutOverwritesByTimestamp ==
  [][lastOp'.op = "put" =>
       LET t == lastOp'.t
       IN  /\ DOMAIN buffer' = (DOMAIN buffer) \cup {t.timestamp}
           /\ buffer'[t.timestamp] = t
           /\ \A k \in (DOMAIN buffer) \ {t.timestamp} : buffer'[k] = buffer[k]
           /\ (t.timestamp \in DOMAIN buffer =>
                 getIndexedDBCount(buffer') = getIndexedDBCount(buffer))
           /\ (lastOp = lastOp' => buffer' = buffer)]_vars

\* C16 happens: a stored entry has been overwritten by one of the same
\* timestamp with another text and another finality flag
C16_Witness ==
  /\ lastOp.op = "put"
  /\ lastOp.t = [text |-> "b", timestamp |-> 2, isFinal |-> FALSE]
  /\ buffer[2] = lastOp.t
  /\ getIndexedDBCount(buffer) = 3
  /\ appended = DOMAIN buffer

\* the counters a session had when the program started
InitialTranscripts(id) == IF id \in DOMAIN OldSessions THEN OldSessions[id].totalTranscripts ELSE 0
InitialWords(id) == IF id \in DOMAIN OldSessions THEN OldSessions[id].totalWords ELSE 0

\* C17: once N addTranscript calls on one session have all completed, in any
\* interleaving of their steps, the session's totalTranscripts has grown by
\* N and its totalWords by the word counts of the N texts.
C17_NoIncrementLost ==
  (/\ stats.started > 0
   /\ stats.completed = stats.started
   /\ Cardinality((DOMAIN sessions) \ (DOMAIN OldSessions)) <= 1
   /\ currentSessionId \in DOMAIN sessions)
    => /\ sessions[currentSessionId].totalTranscripts
            = InitialTranscripts(currentSessionId) + stats.completed
       /\ sessions[currentSessionId].totalWords
            = InitialWords(currentSessionId) + stats.words

\* C18: no step lowers a session's totalTranscripts or totalWords or moves
\* its updatedAt backwards, overlapping addTranscript, saveWordCloudSnapshot
\* and session creation included.
C18_CountersNeverDecrease ==
  [][\A id \in DOMAIN sessions :
       /\ id \in DOMAIN sessions'
       /\ sessions'[id].totalTranscripts >= sessions[id].totalTranscripts
       /\ sessions'[id].totalWords >= sessions[id].totalWords
       /\ sessions'[id].updatedAt >= sessions[id].updatedAt]_vars

\* C19: on a store with no session the calls, overlapping or not, create one
\* session and all use its id; on a store with sessions the one created last
\* is resumed and none is created.
C19_OneCurrentSession ==
  IF (DOMAIN sessions) \cap (DOMAIN OldSessions) = {}
  THEN /\ Cardinality(DOMAIN sessions) <= 1
       /\ \A c \in Calls : calls[c].sessionId # 0 => calls[c].sessionId \in DOMAIN sessions
       /\ currentSessionId # 0 => currentSessionId \in DOMAIN sessions
  ELSE /\ DOMAIN sessions \subseteq DOMAIN OldSessions
       /\ \A c \in Calls : calls[c].sessionId \in {0, 11}
       /\ currentSessionId \in {0, 11}

\* the store rebuilt from the entries of a document
RECURSIVE Rebuild(_)
Rebuild(transcripts) ==
  IF transcripts = <<>> THEN EmptyStore
  ELSE Put(Rebuild(Tail(transcripts)), Head(transcripts))

\* C20: the document exportSessionAsJSON builds holds every entry that is in
\* the store when it reads it, whatever the store's size, so that the store
\* rebuilt from the document is the store read, and its metadata are those of
\* the session the document was made from.
C20_DocumentHoldsEveryEntry ==
  [][\A c \in Calls :
       (calls[c].kind = "export" /\ calls[c].pc = "get" /\ calls'[c].pc = "read")
         => /\ Rebuild(calls'[c].ret.transcripts) = buffer
            /\ calls'[c].ret.id = calls[c].session.id
            /\ calls'[c].ret.metadata.totalTranscripts = calls[c].session.totalTranscripts
            /\ calls'[c].ret.metadata.totalWords = calls[c].session.totalWords]_vars

\* the tokens of the texts as they were said, before any normalisation
RawTokens(transcripts) == SplitOn(join(transcripts), WhiteSpace \cup Punctuation)

\* how often a token occurs among the raw tokens
RawFrequency(transcripts, token) ==
  Cardinality({i \in 1..Len(RawTokens(transcripts)) : RawTokens(transcripts)[i] = token})

\* the weight of the ranked word a token was counted for
WeightGiven(transcripts, token) ==
  LET weighted == weightedWords(transcripts)
      at == {i \in 1..Len(weighted) : weighted[i].word = toLowerCase(token)}
  IN  IF at = {} THEN 0 ELSE weighted[CHOOSE i \in at : TRUE].weight

\* the same texts with no capital letter
Lowered(transcripts) == [i \in 1..Len(transcripts) |-> toLowerCase(transcripts[i])]

\* C23: in word mode a token beginning with an uppercase letter that occurs
\* f >= 3 times is given a strictly greater weight than the token that
\* differs from it only by its lowercase initial and occurs f times, be it
\* in the same texts or in the texts that differ only by that letter.
C23_UppercaseInitialWeighsMore ==
  lastOp.op = "words" =>
    \A i \in 1..Len(RawTokens(lastOp.transcripts)) :
      LET token == RawTokens(lastOp.transcripts)[i]
          lower == toLowerCase(token)
          f == RawFrequency(lastOp.transcripts, token)
      IN  (UpperInitial(token) /\ f >= 3)
            => /\ RawFrequency(lastOp.transcripts, lower) = f
                    => WeightGiven(lastOp.transcripts, token)
                         > WeightGiven(lastOp.transcripts, lower)
               /\ RawFrequency(lastOp.transcripts, lower) = 0
                    => WeightGiven(lastOp.transcripts, token)
                         > WeightGiven(Lowered(lastOp.transcripts), lower)

\* every token of the texts is a stop word; so it is when there is no token
AllStopWords(transcripts) ==
  \A i \in 1..Len(RawTokens(transcripts)) :
    toLowerCase(RawTokens(transcripts)[i]) \in STOP_WORDS \cup ENGLISH_STOP_WORDS

\* C24: generateWordCloudData returns the empty list for texts made of stop
\* words only and for no text or empty texts.
C24_StopWordsRankEmpty ==
  (lastOp.op = "words" /\ AllStopWords(lastOp.transcripts)) => lastOp.ret = <<>>

\* a ranking of "A do" and "do a" has been computed
C24_Witness ==
  /\ lastOp.op = "words"
  /\ lastOp.transcripts = <<<<"A", " ", "d", "o">>, <<"d", "o", " ", "a">>>>
  /\ lastOp.maxWords = 50
  /\ lastOp.ret = <<>>

\* sentences i and j are near-duplicates
NearDuplicates(allSentences, i, j) ==
  /\ i # j
  /\ Similar(calculateSimilarity(allSentences[i].words, allSentences[j].words))

\* sentence k holds a keyword of global frequency MIN_KEYWORD_FREQ or more
HoldsKeyword(allSentences, wordFrequency, k) ==
  \E w \in allSentences[k].words : FreqOf(wordFrequency, w) >= MIN_KEYWORD_FREQ

StoredSnapshot ==
  LET id == IF currentSessionId # 0 THEN currentSessionId
            ELSE getLatestSession(sessions).id
  IN  IF id \in DOMAIN sessions THEN sessions[id].wordCloudSnapshot ELSE NoSnapshot

\* C21: when generateAndSaveWordCloud returns a list, the stored snapshot
\* holds that list with the display mode and the version of the call,
\* whatever the buffer held, an empty buffer included.
C21_ReturnedListIsStored ==
  [][\A c \in Calls :
       (/\ calls[c].kind = "generate"
        /\ calls[c].pc # "done"
        /\ calls'[c].pc = "done"
        /\ calls'[c].how = "ok")
         => /\ StoredSnapshot' # NoSnapshot
            /\ StoredSnapshot'.words = calls'[c].words
            /\ StoredSnapshot'.displayMode = calls'[c].displayMode
            /\ StoredSnapshot'.version = calls'[c].version]_vars

\* C22: the snapshot of every stored session is absent or has the
\* generatedAt, the display mode, the words and the version of one and the
\* same generateAndSaveWordCloud call.
C22_SnapshotFromOneCall ==
  \A id \in DOMAIN sessions :
    \/ sessions[id].wordCloudSnapshot = NoSnapshot
    \/ \E m \in stats.made :
         /\ sessions[id].wordCloudSnapshot.generatedAt = m.at
         /\ sessions[id].wordCloudSnapshot.displayMode = m.displayMode
         /\ sessions[id].wordCloudSnapshot.words = m.words
         /\ sessions[id].wordCloudSnapshot.version = m.version

\* two generations overlap: both have put their snapshot, of different
\* display modes and versions, and neither has returned
C22_Witness ==
  /\ \A c \in Calls : calls[c].kind = "generate" /\ calls[c].pc = "update"
  /\ calls["c1"].displayMode # calls["c2"].displayMode
  /\ Cardinality(stats.made) = 2
  /\ sessions[11].wordCloudSnapshot # NoSnapshot
  /\ sessions[11].wordCloudSnapshot.words # <<>>

\* C26: an addTranscript call whose put of the transcript fails changes
\* neither the store of transcripts nor any session, so that totalTranscripts
\* and totalWords stay as they are, and it ends by throwing to its caller.
C26_FailedWriteThrowsAndCountsNothing ==
  [][\A c \in Calls :
       (calls[c].how = "fail" /\ calls'[c] # calls[c])
         => /\ sessions' = sessions
            /\ buffer' = buffer
            /\ currentSessionId' = currentSessionId
            /\ calls'[c].pc = "done"
            /\ calls'[c].how = "threw"]_vars

\* an addTranscript call has thrown on its failed put while another had
\* counted its transcript
C26_Witness ==
  /\ calls["c1"].kind = "add" /\ calls["c1"].pc = "done" /\ calls["c1"].how = "threw"
  /\ calls["c1"].text = <<"a", "b", " ", "a", "b">>
  /\ stats.started = 2 /\ stats.completed = 1
  /\ currentSessionId = 11
  /\ sessions[11].totalTranscripts = 2
  /\ sessions[11].totalWords = 3
  /\ getIndexedDBCount(buffer) = 1

\* C27: a cycle that has passed the guard and returns, but not under the
\* rule 'count <= cap and not forced', has recorded the time of its return
\* in lastSyncTime, also when it found nothing to evict and when every batch
\* failed; and no step lowers lastSyncTime.
C27_CompletedCycleRecordsTime ==
  [][/\ lastSyncTime' >= lastSyncTime
     /\ \A p \in Slots :
          (/\ Executing(p)
           /\ sync'[p].pc = "done"
           /\ sync'[p].how \notin {"undercap", "threw"})
            => lastSyncTime' = now']_vars

\* C28: while an invocation waits for a push, isSyncing stays true, so that
\* every syncToSupabase() called meanwhile without force is skipped and
\* returns 0.
C28_PendingPushKeepsFlag ==
  /\ \A p \in Slots : sync[p].pc = "push" => isSyncing
  /\ \A p, q \in Slots :
       (sync[p].pc = "push" /\ sync[q].pc = "done" /\ ~sync[q].force)
         => sync[q].how = "skipped" /\ sync[q].ret = 0

\* C29: deleteOldFromIndexedDB is one step for the appends: no step changes
\* the store between the scan of an invocation and its deletions, and the
\* entries it hands back are in the store, with the content handed back,
\* when it deletes them.
C29_DeleteOldIsAtomic ==
  [][\A p \in Slots :
       /\ (sync[p].pc = "delete" /\ sync'[p].pc = "delete") => buffer' = buffer
       /\ (sync[p].pc = "delete" /\ sync'[p].pc = "push")
            => \A k \in 1..Len(sync[p].toSync) :
                 /\ sync[p].toSync[k].timestamp \in DOMAIN buffer
                 /\ buffer[sync[p].toSync[k].timestamp] = sync[p].toSync[k]]_vars

\* C30: startAutoSync puts isSyncing and lastSyncTime back to their initial
\* values: after it lastSyncTime is 0, and its first syncToSupabase() finds
\* isSyncing false and is not skipped.
C30_StartResetsSyncState ==
  [][startAutoSync
       => /\ lastSyncTime' = 0
          /\ \A p \in Slots :
               (sync[p].pc = "idle" /\ sync'[p].pc # "idle") => sync'[p].how # "skipped"]_vars

\* how many of the three conditions hold of a word: all katakana,
\* uppercase initial, three letters or more
BonusCount(word) ==
  Cardinality({c \in {"katakana", "upper", "long"} :
                 \/ c = "katakana" /\ \A i \in 1..Len(word) : word[i] = "U+30A2"
                 \/ c = "upper" /\ word[1] = "A"
                 \/ c = "long" /\ Len(word) >= 3})

\* 12^k and 10^k
RECURSIVE Pow(_, _)
Pow(b, k) == IF k = 0 THEN 1 ELSE b * Pow(b, k - 1)

\* C31: the weight of a word is its frequency when the frequency is below 3,
\* and from 3 on the frequency times 1.2^k, k being the number of conditions
\* that hold of the word (all katakana, uppercase initial, length >= 3); for
\* one word the weight grows strictly with the frequency.
C31_WeightCompoundsBonuses ==
  lastOp.op = "weight" =>
    LET f == lastOp.frequency
        k == BonusCount(lastOp.word)
    IN  /\ k \in 0..3
        /\ f < 3 => lastOp.ret = f * WeightUnit
        /\ f >= 3 => lastOp.ret * Pow(10, k) = f * WeightUnit * Pow(12, k)
        /\ \A g \in 1..(f - 1) : calculateWordWeight(lastOp.word, g) < lastOp.ret

\* a katakana word of three letters has been weighed at frequency 3: two
\* conditions hold and the weight is 3 * 1.44
C31_Witness ==
  /\ lastOp.op = "weight"
  /\ lastOp.word = <<"U+30A2", "U+30A2", "U+30A2">>
  /\ lastOp.frequency = 3
  /\ lastOp.ret = 4320

\* how many entries of a list have a text
CountIn(s, text) == Cardinality({i \in 1..Len(s) : s[i].text = text})

\* C32: the list word mode returns holds min(maxWords, number of counted
\* words) words, each a counted word and none twice, in non-increasing order
\* of weight, and no counted word left out weighs more than a word of the
\* list; the list sentence mode returns holds min(maxSentences, number of
\* sentences of positive score) of these sentences in non-increasing order of
\* score, and no such sentence left out scores more than one of the list.
C32_RankedListIsTopByWeight ==
  /\ lastOp.op = "words" =>
       \A weighted \in {weightedWords(lastOp.transcripts)} :
         LET ret == lastOp.ret
             WeightOf(text) ==
               weighted[CHOOSE i \in 1..Len(weighted) : weighted[i].word = text].weight
             kept == {ret[i].text : i \in 1..Len(ret)}
         IN  /\ Len(ret) = Min(lastOp.maxWords, Len(weighted))
             /\ kept \subseteq {weighted[i].word : i \in 1..Len(weighted)}
             /\ Cardinality(kept) = Len(ret)
             /\ \A i, j \in 1..Len(ret) :
                  i < j => WeightOf(ret[i].text) >= WeightOf(ret[j].text)
             /\ \A c \in 1..Len(weighted), i \in 1..Len(ret) :
                  weighted[c].word \notin kept => weighted[c].weight <= WeightOf(ret[i].text)
  /\ lastOp.op = "sentences" =>
       \A scored \in {SelectSeq(scoresOf(lastOp.transcripts),
                                LAMBDA s : FGt(s.score, Frac(0, 1)))} :
         LET ret == lastOp.ret
             ScoreOf(text) ==
               scored[CHOOSE i \in 1..Len(scored) : scored[i].text = text].score
         IN  /\ Len(ret) = Min(lastOp.maxSentences, Len(scored))
             /\ \A i \in 1..Len(ret) :
                  /\ CountIn(scored, ret[i].text) >= 1
                  /\ CountIn(ret, ret[i].text) <= CountIn(scored, ret[i].text)
             /\ \A i, j \in 1..Len(ret) :
                  i < j => FGe(ScoreOf(ret[i].text), ScoreOf(ret[j].text))
             /\ \A c \in 1..Len(scored), i \in 1..Len(ret) :
                  CountIn(ret, scored[c].text) < CountIn(scored, scored[c].text)
                    => FGe(ScoreOf(ret[i].text), scored[c].score)

\* "cd", "ab, ab. ab" and "abc abc abc" have been ranked in word mode with
\* room for two words: "abc" and "ab" are returned in this order, "cd" is
\* left out
C32_Witness ==
  /\ lastOp.op = "words"
  /\ lastOp.maxWords = 2
  /\ lastOp.transcripts = <<<<"c", "d">>,
                            <<"a", "b", ",", " ", "a", "b", ".", " ", "a", "b">>,
                            Thrice(<<"a", "b", "c">>)>>
  /\ Len(weightedWords(lastOp.transcripts)) = 3
  /\ Len(lastOp.ret) = 2
  /\ lastOp.ret[1].text = <<"a", "b", "c">>
  /\ lastOp.ret[2].text = <<"a", "b">>

\* a / b >= c / d for a, c >= 0 and b, d > 0, by whole parts and remainders,
\* which stays within the integers of the model checker
RECURSIVE RatioGe(_, _, _, _)
RatioGe(a, b, c, d) ==
  IF a \div b # c \div d THEN a \div b > c \div d
  ELSE IF c % d = 0 THEN TRUE
  ELSE IF a % b = 0 THEN FALSE
  ELSE RatioGe(d, c % d, b, a % b)

\* size x is at least size y
SizeGe(x, y) == RatioGe(x.n, x.d, y.n, y.d)

\* C33: every size of a ranked list lies between 0.5 and 2 in word mode and
\* between 0.3 and 0.8 in sentence mode; an item of larger weight (score) is
\* never smaller; the first item has the largest size when the weights
\* differ; and when all weights are equal, a single item included, every
\* item has one and the same size.
C33_SizesScaledIntoRange ==
  /\ lastOp.op = "words" =>
       \A weighted \in {weightedWords(lastOp.transcripts)} :
         LET ret == lastOp.ret
             WeightOf(i) ==
               weighted[CHOOSE c \in 1..Len(weighted) : weighted[c].word = ret[i].text].weight
         IN  /\ \A i \in 1..Len(ret) :
                  SizeGe(ret[i].size, Frac(1, 2)) /\ SizeGe(Frac(2, 1), ret[i].size)
             /\ \A i, j \in 1..Len(ret) :
                  /\ WeightOf(i) >= WeightOf(j) => SizeGe(ret[i].size, ret[j].size)
                  /\ WeightOf(i) > WeightOf(j) => ret[1].size = Frac(2, 1)
             /\ (\A i, j \in 1..Len(ret) : WeightOf(i) = WeightOf(j))
                  => \A i, j \in 1..Len(ret) : ret[i].size = ret[j].size
  /\ lastOp.op = "sentences" =>
       \A scored \in {scoresOf(lastOp.transcripts)} :
         LET ret == lastOp.ret
             ScoreOf(i) ==
               scored[CHOOSE c \in 1..Len(scored) : scored[c].text = ret[i].text].score
         IN  /\ \A i \in 1..Len(ret) :
                  SizeGe(ret[i].size, Frac(3, 10)) /\ SizeGe(Frac(4, 5), ret[i].size)
             /\ \A i, j \in 1..Len(ret) :
                  /\ FGe(ScoreOf(i), ScoreOf(j)) => SizeGe(ret[i].size, ret[j].size)
                  /\ FGt(ScoreOf(i), ScoreOf(j)) => ret[1].size = Frac(4, 5)
             /\ (\A i, j \in 1..Len(ret) : ScoreOf(i) = ScoreOf(j))
                  => \A i, j \in 1..Len(ret) : ret[i].size = ret[j].size

\* "ab cd", "ab cd ef" and "ab gh ij kl" have been ranked in sentence mode:
\* the first has size 0.8, the last 0.3 and the second a size in between
C33_Witness ==
  /\ lastOp.op = "sentences"
  /\ lastOp.maxSentences = 15
  /\ lastOp.transcripts =
       <<<<"a", "b", " ", "c", "d", "\n">>,
         <<"a", "b", " ", "c", "d", " ", "e", "f", "\n">>,
         <<"a", "b", " ", "g", "h", " ", "i", "j", " ", "k", "l", "\n">>>>
  /\ Len(lastOp.ret) = 3
  /\ lastOp.ret[1].size = Frac(4, 5)
  /\ ~SizeGe(Frac(3, 10), lastOp.ret[2].size) /\ ~SizeGe(lastOp.ret[2].size, Frac(4, 5))
  /\ lastOp.ret[3].size = Frac(3, 10)

\* getSyncStatus, lines 221-231
getSyncStatus ==
  [isSyncing |-> isSyncing, lastSyncTime |-> lastSyncTime,
   isAutoSyncRunning |-> syncIntervalId # FALSE]

\* C34: getSyncStatus().isSyncing is true exactly when some syncToSupabase
\* invocation is executing: the end of one invocation never clears the flag
\* while another is executing.
C34_FlagTrueWhileAnyExecutes ==
  getSyncStatus.isSyncing = (InFlight # {})

\* C35: a snapshot once stored stays in its session until a later snapshot
\* replaces it: no step removes it or puts an older one in its place, the
\* record updateSessionMetadata writes carries the stored snapshot, and the
\* record saveWordCloudSnapshot writes carries the stored counters.
C35_SnapshotSurvivesAdds ==
  [][\A id \in DOMAIN sessions :
       /\ id \in DOMAIN sessions'
       /\ sessions[id].wordCloudSnapshot # NoSnapshot
            => /\ sessions'[id].wordCloudSnapshot # NoSnapshot
               /\ sessions'[id].wordCloudSnapshot.generatedAt
                    >= sessions[id].wordCloudSnapshot.generatedAt
       /\ \A c \in Calls :
            (calls[c].pc = "get" /\ calls'[c].pc = "update" /\ calls[c].session.id = id)
              => IF calls[c].kind = "add"
                 THEN sessions'[id].wordCloudSnapshot = sessions[id].wordCloudSnapshot
                 ELSE /\ sessions'[id].totalTranscripts = sessions[id].totalTranscripts
                      /\ sessions'[id].totalWords = sessions[id].totalWords]_vars

\* the batch invocation p is about to submit
PendingBatch(p) ==
  Slice(ToRows(sync[p].toSync), sync[p].i, sync[p].i + SYNC_BATCH_SIZE)

\* C36: no batch a sync cycle or an export-all is about to submit holds a
\* timestamp the remote table already has, so that the UNIQUE constraint on
\* timestamp rejects no batch of a sync cycle.
C36_NoEntrySubmittedTwice ==
  /\ \A p \in Slots : sync[p].pc = "push" => InsertAllowed(remote, PendingBatch(p))
  /\ export.pc = "push"
       => InsertAllowed(remote, Slice(export.rows, export.i, export.i + SYNC_BATCH_SIZE))

\* C37: no step of exportAllToSupabase changes the local buffer, isSyncing
\* or lastSyncTime; it reads every buffered entry and submits them in order
\* in batches of 1..SYNC_BATCH_SIZE rows; a batch that fails ends the call,
\* which throws to its caller with no further batch attempted, and a call
\* that returns has inserted every entry it read.
C37_ExportAllStopsAtFirstFailure ==
  [][export' # export =>
       /\ buffer' = buffer
       /\ isSyncing' = isSyncing
       /\ lastSyncTime' = lastSyncTime
       /\ (export.pc = "read" /\ export'.pc = "push")
            => export'.rows = ToRows(getAllFromIndexedDB(buffer)) /\ export'.i = 0
       /\ export.pc = "push" =>
            LET k == export.i \div SYNC_BATCH_SIZE + 1
                batch == BatchOf(export.rows, k)
            IN  /\ Len(batch) \in 1..SYNC_BATCH_SIZE
                /\ export'.rows = export.rows
                /\ IF remote' = remote
                   THEN export'.pc = "done" /\ export'.how = "threw"
                   ELSE /\ remote' = remote \cup RowSet(batch)
                        /\ export'.i = k * SYNC_BATCH_SIZE
                        /\ export'.totalExported = export.totalExported + Len(batch)
                        /\ IF k * SYNC_BATCH_SIZE < Len(export.rows)
                           THEN export'.pc = "push"
                           ELSE /\ export'.pc = "done" /\ export'.how = "exported"
                                /\ export'.totalExported = Len(export.rows)
                                /\ RowSet(export.rows) \subseteq remote'
       /\ export.pc = "done" => (export'.pc = "idle" /\ remote' = remote)]_vars

\* an export-all of three entries has thrown at its second batch: the first
\* batch is in the remote table, the third entry is not, and the buffer
\* holds all three
C37_Witness ==
  /\ export.pc = "done" /\ export.how = "threw"
  /\ Len(export.rows) = 3
  /\ export.i = SYNC_BATCH_SIZE
  /\ export.totalExported = SYNC_BATCH_SIZE
  /\ getIndexedDBCount(buffer) = 3
  /\ Stamps(remote) = {export.rows[1].timestamp, export.rows[2].timestamp}

\* C38: from the return of clearAll until the next addTranscript call is
\* made, the store of transcripts and the store of sessions are empty,
\* whatever addTranscript calls were in flight while clearAll ran.
C38_ClearedStoresStayEmpty ==
  stats.cleared => (buffer = EmptyStore /\ sessions = NoSessions)

\* C39: at most one interval timer is set at any time; getSyncStatus()
\* reports isAutoSyncRunning exactly when one is set; and every
\* startAutoSync call leaves one timer set and makes one syncToSupabase()
\* call without force of its own.
C39_OneTimerOneImmediateSync ==
  /\ [](timers <= 1 /\ getSyncStatus.isAutoSyncRunning = (timers = 1))
  /\ [][startAutoSync =>
          /\ timers' = 1
          /\ Cardinality({p \in Slots : sync[p].pc = "idle" /\ sync'[p].pc # "idle"}) = 1
          /\ \A p \in Slots :
               (sync[p].pc = "idle" /\ sync'[p].pc # "idle") => ~sync'[p].force]_vars

\* the scheduler has been started while a cycle was in flight: one timer is
\* set and the sync of this start has been skipped
C39_Witness ==
  /\ timers = 1
  /\ getSyncStatus.isAutoSyncRunning
  /\ \E p, q \in Slots :
       /\ sync[p].pc = "push" /\ ~sync[p].force
       /\ sync[q].pc = "done" /\ sync[q].how = "skipped" /\ ~sync[q].force

====
